---- MODULE Spec2Model ----
\* A model of the conversational analytics assistant: the SQL tool
\* (SQLAgent), the intent router and the turn state machine (ChatAgent), the
\* analytics pipeline (OrchestratorAgent, EDAAgent), the retrieval tool
\* (RAGAgent), the /chat endpoint and the two sanitizers, the server process
\* with its request threads (get_agent, OlistDataLoader) and the chat client.
\*
\* Text is modelled at the level the code inspects it:
\*   - SQL text is a sequence of one-character strings, so that lower(),
\*     strip(), startswith(), endswith() and substring search are computed
\*     character by character;
\*   - the classifier oracle's text is a sequence of lexical tokens (json.loads
\*     ignores the whitespace between tokens); the payload of a token is a
\*     sequence of characters.
EXTENDS Integers, Sequences, FiniteSets, TLC

\* ---------------------------------------------------------------------
\* Bounds
\* ---------------------------------------------------------------------
\* number of pieces an enumerated SQL text is built from
MaxPieces == 3
\* number of words of prose before and after the body of an oracle text
MaxWords == 1
\* number of requests the server is observed for
MaxRequests == 2
\* number of calls of DataAgent.run the loader is observed for
MaxRuns == 2
\* number of messages the user of the chat client sends
MaxTurns == 3
\* number of datetime columns of the widest table given to EDAAgent.run
MaxTimeCols == 6
\* number of rows the store returns beyond top_n
MaxExtraRows == 1
\* length of the sequences of scalars given to the sanitizers
MaxSeqLen == 2

\* ---------------------------------------------------------------------
\* Python str operations, on sequences of characters
\* ---------------------------------------------------------------------
UpperChars == {"A","B","C","D","E","F","G","H","I","J","K","L","M",
               "N","O","P","Q","R","S","T","U","V","W","X","Y","Z"}

LowerOf == [ch \in UpperChars |->
    CASE ch = "A" -> "a" [] ch = "B" -> "b" [] ch = "C" -> "c" [] ch = "D" -> "d"
      [] ch = "E" -> "e" [] ch = "F" -> "f" [] ch = "G" -> "g" [] ch = "H" -> "h"
      [] ch = "I" -> "i" [] ch = "J" -> "j" [] ch = "K" -> "k" [] ch = "L" -> "l"
      [] ch = "M" -> "m" [] ch = "N" -> "n" [] ch = "O" -> "o" [] ch = "P" -> "p"
      [] ch = "Q" -> "q" [] ch = "R" -> "r" [] ch = "S" -> "s" [] ch = "T" -> "t"
      [] ch = "U" -> "u" [] ch = "V" -> "v" [] ch = "W" -> "w" [] ch = "X" -> "x"
      [] ch = "Y" -> "y" [] ch = "Z" -> "z"]

\* str.lower()
Lower(s) == [i \in 1..Len(s) |-> IF s[i] \in UpperChars THEN LowerOf[s[i]] ELSE s[i]]

\* the characters str.strip() removes
Whitespace == {" ", "\n", "\t"}

RECURSIVE LStrip(_)
LStrip(s) == IF s # <<>> /\ Head(s) \in Whitespace THEN LStrip(Tail(s)) ELSE s

RECURSIVE RStrip(_)
RStrip(s) == IF s # <<>> /\ s[Len(s)] \in Whitespace
             THEN RStrip(SubSeq(s, 1, Len(s) - 1)) ELSE s

\* str.strip()
Strip(s) == RStrip(LStrip(s))

\* str.startswith(p)
StartsWith(s, p) == Len(s) >= Len(p) /\ SubSeq(s, 1, Len(p)) = p

\* str.endswith(p)
EndsWith(s, p) == Len(s) >= Len(p) /\ SubSeq(s, Len(s) - Len(p) + 1, Len(s)) = p

\* p in s
Contains(s, p) == \E i \in 1..(Len(s) - Len(p) + 1) : SubSeq(s, i, i + Len(p) - 1) = p

\* re.sub(p, "", s, flags=re.IGNORECASE) / s.replace(p, "") for a literal p:
\* the leftmost non-overlapping occurrences are removed, left to right
RECURSIVE RemoveAll(_, _, _)
RemoveAll(s, p, ci) ==
    IF Len(s) < Len(p) THEN s
    ELSE LET h == SubSeq(s, 1, Len(p))
         IN IF (IF ci THEN Lower(h) = Lower(p) ELSE h = p)
            THEN RemoveAll(SubSeq(s, Len(p) + 1, Len(s)), p, ci)
            ELSE <<Head(s)>> \o RemoveAll(Tail(s), p, ci)

\* ---------------------------------------------------------------------
\* SQLAgent: text helpers
\* ---------------------------------------------------------------------
w_update   == <<"u","p","d","a","t","e">>
w_delete   == <<"d","e","l","e","t","e">>
w_insert   == <<"i","n","s","e","r","t">>
w_alter    == <<"a","l","t","e","r">>
w_drop     == <<"d","r","o","p">>
w_create   == <<"c","r","e","a","t","e">>
w_replace  == <<"r","e","p","l","a","c","e">>
w_truncate == <<"t","r","u","n","c","a","t","e">>
w_select   == <<"s","e","l","e","c","t">>

\* SQLAgent.UNSAFE_WORDS: each word carries a trailing space
UNSAFE_WORDS == << w_update \o <<" ">>, w_delete \o <<" ">>, w_insert \o <<" ">>,
                   w_alter \o <<" ">>, w_drop \o <<" ">>, w_create \o <<" ">>,
                   w_replace \o <<" ">>, w_truncate \o <<" ">> >>

\* SQLAgent._normalize_sql
_normalize_sql(sql) ==
    LET s == Strip(sql)
    IN IF EndsWith(s, <<";">>) THEN Strip(SubSeq(s, 1, Len(s) - 1)) ELSE s

\* a validator that forgets the multi-statement check
mut_is_safe_sql_no_semicolon(sql) ==
    LET sql_lower == Lower(sql)
    IN /\ StartsWith(sql_lower, w_select)
       /\ \A i \in 1..Len(UNSAFE_WORDS) : ~Contains(sql_lower, UNSAFE_WORDS[i])

\* SQLAgent._is_safe_sql
_is_safe_sql(sql) ==
    LET sql_lower == Lower(sql)
    IN IF ~StartsWith(sql_lower, w_select) THEN FALSE
       ELSE IF \E i \in 1..Len(UNSAFE_WORDS) : Contains(sql_lower, UNSAFE_WORDS[i]) THEN FALSE
       ELSE IF Contains(sql_lower, <<";">>) THEN FALSE
       ELSE TRUE

\* the backquote character of a Markdown code fence (a TLA+ string cannot
\* hold a backquote; this character stands for it)
BQ == "@"

fence_chars == <<BQ, BQ, BQ>>

\* the cleaning at the end of SQLAgent._generate_sql and _generate_fallback_sql:
\* .strip(), re.sub(fence + "sql", "", sql, flags=re.IGNORECASE),
\* .replace(fence, "").strip()
CleanSql(text) ==
    Strip(RemoveAll(RemoveAll(Strip(text), fence_chars \o <<"s","q","l">>, TRUE),
                    fence_chars, FALSE))

\* SQLAgent.__init__: top_n: int = 20
top_n == 20

\* the result of an execution
Result(cols, rws) == [columns |-> cols, rows |-> rws]

NoResult == Result(<<>>, <<>>)

\* one event of a connection to the store: ev is "open" or "close", id the
\* connection
ConnEvent(e, n) == [ev |-> e, id |-> n]

\* the number of connections a log has opened
Opened(log) == Cardinality({ i \in 1..Len(log) : log[i].ev = "open" })

\* an execution that closes its connection only when the statement succeeded
mut_ScopedConn_no_finally(log, outcome) ==
    LET n == Opened(log) + 1
    IN IF outcome = "connect" THEN log
       ELSE IF outcome = "execute" THEN Append(log, ConnEvent("open", n))
       ELSE log \o <<ConnEvent("open", n), ConnEvent("close", n)>>

\* SQLAgent._run_sql and SQLAgent._load_categories:
\* conn = sqlite3.connect(self.db_path); try: ... finally: conn.close()
\* outcome is "connect" when connect raised (no connection exists), "execute"
\* when the statement or the fetch raised, "ok" otherwise
ScopedConn(log, outcome) ==
    LET n == Opened(log) + 1
    IN IF outcome = "connect" THEN log
       ELSE log \o <<ConnEvent("open", n), ConnEvent("close", n)>>

\* an execution that returns every row
mut_run_sql_untruncated(raw) == Result(raw.columns, raw.rows)

\* rows = rows[: self.top_n] in SQLAgent._run_sql
_run_sql(raw) == Result(raw.columns, SubSeq(raw.rows, 1, IF Len(raw.rows) < top_n THEN Len(raw.rows) ELSE top_n))

\* ---------------------------------------------------------------------
\* Oracle text as lexical tokens, and the values json.loads builds
\* ---------------------------------------------------------------------
\* a token: k is its kind, v its characters
\*   "punct"  one of { } [ ] : ,
\*   "str"    a JSON string literal (v is its content, without the quotes)
\*   "num"    a JSON number
\*   "lit"    true, false or null
\*   "arr"    a JSON array of objects, written as the value of a member of
\*            an object (v holds one title per object)
\*   "word"   a bare word of prose (not JSON)
\*   "fence"  a Markdown code fence (three backquotes)
Tok(kind, chars) == [k |-> kind, v |-> chars]

LBrace   == Tok("punct", <<"{">>)
RBrace   == Tok("punct", <<"}">>)
LBracket == Tok("punct", <<"[">>)
RBracket == Tok("punct", <<"]">>)
Colon    == Tok("punct", <<":">>)
Comma    == Tok("punct", <<",">>)
Fence    == Tok("fence", <<"f","e","n","c","e">>)

c_json  == <<"j","s","o","n">>
c_true  == <<"t","r","u","e">>
c_false == <<"f","a","l","s","e">>
c_null  == <<"n","u","l","l">>

\* a Python value: t is its type, s the characters of a scalar, items the
\* elements of a list or the [key, val] members of a dict, in order
PyVal(type, chars, elems) == [t |-> type, s |-> chars, items |-> elems]

PyNone == PyVal("none", <<>>, <<>>)
PyStr(chars) == PyVal("str", chars, <<>>)

IsScalarTok(tok) == tok.k \in {"str", "num", "lit"}

\* the value of a scalar token
ScalarVal(tok) ==
    IF tok.k = "str" THEN PyStr(tok.v)
    ELSE IF tok.k = "num" THEN PyVal("num", tok.v, <<>>)
    ELSE IF tok.v = c_null THEN PyNone
    ELSE PyVal("bool", tok.v, <<>>)

\* one object of an array of objects: a dict known by its title
TitledObject(title) ==
    PyVal("dict", <<>>, << [key |-> <<"title">>, val |-> PyStr(<<title>>)] >>)

\* a token that is a JSON value by itself
IsValueTok(tok) == IsScalarTok(tok) \/ tok.k = "arr"

\* the value of a value token
TokVal(tok) ==
    IF tok.k = "arr"
    THEN PyVal("list", <<>>, [i \in 1..Len(tok.v) |-> TitledObject(tok.v[i])])
    ELSE ScalarVal(tok)

\* the tokens between the brackets are members "key" : value separated by commas
IsMembers(inner) ==
    \/ inner = <<>>
    \/ /\ (Len(inner) + 1) % 4 = 0
       /\ \A i \in 1..((Len(inner) + 1) \div 4) :
            /\ inner[4 * i - 3].k = "str"
            /\ inner[4 * i - 2] = Colon
            /\ IsValueTok(inner[4 * i - 1])
            /\ (4 * i <= Len(inner) => inner[4 * i] = Comma)

\* the tokens between the brackets are scalars separated by commas
IsElements(inner) ==
    \/ inner = <<>>
    \/ /\ Len(inner) % 2 = 1
       /\ \A i \in 1..Len(inner) :
            IF i % 2 = 1 THEN IsScalarTok(inner[i]) ELSE inner[i] = Comma

Inner(toks) == SubSeq(toks, 2, Len(toks) - 1)

\* json.loads accepts the text (JSON values nested at most one level deep;
\* the texts of this model hold no deeper value)
JsonValid(toks) ==
    \/ Len(toks) = 1 /\ IsValueTok(toks[1])
    \/ Len(toks) >= 2 /\ toks[1] = LBrace /\ toks[Len(toks)] = RBrace /\ IsMembers(Inner(toks))
    \/ Len(toks) >= 2 /\ toks[1] = LBracket /\ toks[Len(toks)] = RBracket /\ IsElements(Inner(toks))

\* json.loads(text), for a text it accepts
JsonValue(toks) ==
    IF Len(toks) = 1 THEN TokVal(toks[1])
    ELSE LET inner == Inner(toks)
         IN IF toks[1] = LBrace
            THEN PyVal("dict", <<>>,
                       [i \in 1..((Len(inner) + 1) \div 4) |->
                          [key |-> inner[4 * i - 3].v, val |-> TokVal(inner[4 * i - 1])]])
            ELSE PyVal("list", <<>>,
                       [i \in 1..((Len(inner) + 1) \div 2) |-> ScalarVal(inner[2 * i - 1])])

\* Python truthiness: bool(x)
Truthy(x) ==
    CASE x.t = "none" -> FALSE
      [] x.t = "bool" -> x.s = c_true
      [] x.t = "num"  -> x.s # <<"0">>
      [] x.t = "str"  -> x.s # <<>>
      [] OTHER        -> x.items # <<>>

\* str(x) of a scalar
PyStrOf(x) ==
    CASE x.t = "none" -> <<"N","o","n","e">>
      [] x.t = "bool" -> IF x.s = c_true THEN <<"T","r","u","e">> ELSE <<"F","a","l","s","e">>
      [] OTHER        -> x.s

\* d.get(key, default) of a dict: json.loads keeps the last of duplicate keys
DictGet(d, key, default) ==
    LET hits == { i \in 1..Len(d.items) : d.items[i].key = key }
    IN IF hits = {} THEN default
       ELSE d.items[CHOOSE i \in hits : \A j \in hits : j <= i].val

\* ---------------------------------------------------------------------
\* ChatAgent: intent router
\* ---------------------------------------------------------------------
I_sql       == <<"s","q","l">>
I_rag       == <<"r","a","g">>
I_analytics == <<"a","n","a","l","y","t","i","c","s">>
I_hybrid    == <<"h","y","b","r","i","d">>
I_general   == <<"g","e","n","e","r","a","l">>

\* Intent = Literal["sql", "rag", "analytics", "hybrid", "general"]
Intent == {I_sql, I_rag, I_analytics, I_hybrid, I_general}

k_intent   == <<"i","n","t","e","n","t">>
k_reason   == <<"r","e","a","s","o","n">>
k_need     == <<"n","e","e","d","_","f","o","l","l","o","w","u","p">>
k_followup == <<"f","o","l","l","o","w","u","p","_","q","u","e","s","t","i","o","n">>
c_Fallback == <<"F","a","l","l","b","a","c","k">>

\* re.sub(r"^FENCE(json)?|FENCE$", "", text.strip(), flags=re.I): a leading fence,
\* with the word json right after it if there is one, and a trailing fence
StripFences(toks) ==
    LET a == IF toks # <<>> /\ toks[1] = Fence
             THEN IF Len(toks) >= 2 /\ toks[2].k = "word" /\ Lower(toks[2].v) = c_json
                  THEN SubSeq(toks, 3, Len(toks))
                  ELSE Tail(toks)
             ELSE toks
    IN IF a # <<>> /\ a[Len(a)] = Fence THEN SubSeq(a, 1, Len(a) - 1) ELSE a

\* re.search(r"\{.*\}", text, flags=re.S): from the first { to the last } after it
BraceMatch(toks) ==
    LET opens == { i \in 1..Len(toks) : toks[i] = LBrace }
    IN IF opens = {} THEN <<>>
       ELSE LET first  == CHOOSE i \in opens : \A j \in opens : i <= j
                closes == { i \in (first + 1)..Len(toks) : toks[i] = RBrace }
            IN IF closes = {} THEN <<>>
               ELSE SubSeq(toks, first, CHOOSE i \in closes : \A j \in closes : j <= i)

\* the outcome of a call: either it raised, or it returned val
Returned(x) == [raised |-> FALSE, val |-> x]
Raised      == [raised |-> TRUE, val |-> PyNone]

\* ChatAgent._safe_json_load
_safe_json_load(text) ==
    LET t == StripFences(text)
    IN IF JsonValid(t) THEN Returned(JsonValue(t))
       ELSE LET m == BraceMatch(t)
            IN IF m = <<>> THEN Returned(PyNone)
               ELSE IF JsonValid(m) THEN Returned(JsonValue(m))
               ELSE Raised

\* a routing decision
Decision(i, r, n, f) == [intent |-> i, reason |-> r, need_followup |-> n, followup_question |-> f]

NoDecision == Decision(<<>>, <<>>, FALSE, <<>>)

RouteReturned(d) == [raised |-> FALSE, val |-> d]
RouteRaised      == [raised |-> TRUE, val |-> NoDecision]

\* a router that takes the classifier's intent value as it is written
mut_route_intent_verbatim(raw) ==
    LET loaded == _safe_json_load(raw)
        parsed == loaded.val
    IN IF loaded.raised THEN RouteRaised
       ELSE IF ~Truthy(parsed)
       THEN RouteReturned(Decision(I_hybrid, c_Fallback, FALSE, <<>>))
       ELSE IF parsed.t # "dict" THEN RouteRaised
       ELSE RouteReturned(Decision(
                PyStrOf(DictGet(parsed, k_intent, PyStr(I_hybrid))),
                Strip(PyStrOf(DictGet(parsed, k_reason, PyStr(<<>>)))),
                Truthy(DictGet(parsed, k_need, PyVal("bool", c_false, <<>>))),
                Strip(PyStrOf(DictGet(parsed, k_followup, PyStr(<<>>))))))

\* ChatAgent._route_intent, from the text the classifier oracle returned
_route_intent(raw) ==
    LET loaded == _safe_json_load(raw)
        parsed == loaded.val
    IN IF loaded.raised THEN RouteRaised
       ELSE IF ~Truthy(parsed)
       THEN RouteReturned(Decision(I_hybrid, c_Fallback, FALSE, <<>>))
       \* parsed.get on a value that is not a dict raises AttributeError
       ELSE IF parsed.t # "dict" THEN RouteRaised
       ELSE LET intent == Lower(Strip(PyStrOf(DictGet(parsed, k_intent, PyStr(I_hybrid)))))
            IN RouteReturned(Decision(
                   IF intent \notin Intent THEN I_hybrid ELSE intent,
                   Strip(PyStrOf(DictGet(parsed, k_reason, PyStr(<<>>)))),
                   Truthy(DictGet(parsed, k_need, PyVal("bool", c_false, <<>>))),
                   Strip(PyStrOf(DictGet(parsed, k_followup, PyStr(<<>>))))))

\* ---------------------------------------------------------------------
\* State
\* ---------------------------------------------------------------------
VARIABLES
    v_pc,       \* validator harness: "ready", "normalized" or "done"
    v_sql,      \* validator harness: the SQL text under test
    v_safe,     \* validator harness: the value _is_safe_sql returned
    r_pc,       \* router harness: "ready" or "done"
    r_raw,      \* router harness: the text the classifier oracle returned
    r_out,      \* router harness: the outcome of _route_intent
    q,          \* SQLAgent.query: its position (pc) and its local variables
    q_out,      \* SQLAgent.query: the dict it returned
    q_log,      \* SQLAgent.query: the calls it has made, in order
    q_conn,     \* SQLAgent: the connections it has opened and closed, in order
    c,          \* ChatAgent.chat: its position (pc), arguments and local variables
    c_out,      \* ChatAgent.chat: the dict it returned
    c_calls,    \* ChatAgent.chat: the oracle and tool calls of the turn, in order
    orch,       \* OrchestratorAgent.run: its position (pc), argument and local variables
    orch_out,   \* OrchestratorAgent.run: the dict it returned
    rag,        \* RAGAgent.answer: its position (pc) and its local variables
    api,        \* the /chat endpoint: its position (pc), request and response
    twin,       \* the turn a replayed turn is compared with, once it is over
    san,        \* sanitizer harness: the value under test and both results
    srv,        \* the server process: the global _agent, the instances built and
                \* the locals of each request thread
    ldr,        \* OlistDataLoader: its cache, the store reads and the locals of
                \* each thread inside DataAgent.run
    ui,         \* the chat client: its session state and the turn in flight
    eda         \* EDAAgent harness: the table under test and the artifact

vVars == <<v_pc, v_sql, v_safe>>
rVars == <<r_pc, r_raw, r_out>>
qVars == <<q, q_out, q_log, q_conn>>
cVars == <<c, c_out, c_calls>>
oVars == <<orch, orch_out>>
yVars == <<srv, ldr, ui, eda>>
xVars == <<rag, api, twin, san, yVars>>

vars == <<vVars, rVars, qVars, cVars, oVars, xVars>>

\* the harnesses at rest
VIdle == v_pc = "off" /\ v_sql = <<>> /\ v_safe = FALSE
RIdle == r_pc = "off" /\ r_raw = <<>> /\ r_out = RouteRaised

\* the locals of SQLAgent.query before the call
QLocals(p) == [pc |-> p, sql_1 |-> <<>>, result_1 |-> NoResult, sql_2 |-> <<>>,
               used_fallback |-> FALSE, sql_used |-> <<>>, result_used |-> NoResult,
               sql_fallback |-> <<>>]

\* the dict SQLAgent.query returns
QueryOut(l, sum) == [sql_initial |-> l.sql_1, sql_used |-> l.sql_used,
                     sql_fallback |-> l.sql_fallback, used_fallback |-> l.used_fallback,
                     result |-> l.result_used, summary |-> sum]

NoQueryOut == QueryOut(QLocals("idle"), "")

QIdle == q = QLocals("idle") /\ q_out = NoQueryOut /\ q_log = <<>> /\ q_conn = <<>>

\* Optional[...]: None, or a value
None == <<>>
Some(x) == <<x>>

\* the fields of ChatState
StateFields == {"last_intent", "last_sql", "last_sql_columns",
                "last_sql_preview_rows", "last_rag_top_sources"}

\* ChatState(...): the dataclass, every field None by default
ChatState(i, sq, cols, rws, srcs) ==
    [last_intent |-> i, last_sql |-> sq, last_sql_columns |-> cols,
     last_sql_preview_rows |-> rws, last_rag_top_sources |-> srcs]

\* the state argument of chat: nothing (kind "none"), a dict (kind "dict")
\* that holds the keys `keys` with the values `vals`, or a value that is not
\* a dict (kind "list")
NoStateArg == [kind |-> "none", keys |-> {}, vals |-> ChatState(None, None, None, None, None)]

StateDict(ks, vs) == [kind |-> "dict", keys |-> ks, vals |-> vs]

\* cur_state = ChatState(**state) if isinstance(state, dict) else ChatState()
ChatStateOf(arg) ==
    IF arg.kind = "dict"
    THEN [f \in StateFields |-> IF f \in arg.keys THEN arg.vals[f] ELSE None]
    ELSE ChatState(None, None, None, None, None)

\* a constructor that wants every field named: a dict with a field stripped
\* is refused
mut_ChatStateRaises_wants_all(arg) ==
    arg.kind = "dict" /\ arg.keys # StateFields

\* ChatState(**state) raises TypeError when the dict carries a key that is not
\* a field of the dataclass; the values are taken as they are, whatever their
\* shape
ChatStateRaises(arg) ==
    arg.kind = "dict" /\ ~(arg.keys \subseteq StateFields)

\* asdict(cur_state)
asdict(st) == StateDict(StateFields, st)

\* tool_outputs: Dict[str, Any], each key absent (None) or holding an output
NoToolOutputs == [sql |-> None, rag |-> None, analytics |-> None, general |-> None]

\* rows[:n]
Take(rows, n) == SubSeq(rows, 1, IF Len(rows) < n THEN Len(rows) ELSE n)

\* a truncation that keeps one row too many
mut_truncate_six(rows) == Take(rows, 6)

\* ChatAgent._truncate, n = 5
_truncate(rows) == Take(rows, 5)

\* the locals of ChatAgent.chat before the call
CLocals(p) == [pc |-> p, state_in |-> NoStateArg, show_debug |-> FALSE,
               cur_state |-> ChatState(None, None, None, None, None),
               cls |-> <<>>, route |-> NoDecision, used_tools |-> <<>>,
               tool_outputs |-> NoToolOutputs, final_answer |-> "",
               payload |-> None, written |-> {}]

\* the dict ChatAgent.chat returns
ChatOut(l, dbg) == [final_answer |-> l.final_answer, used_tools |-> l.used_tools,
                    tool_outputs |-> l.tool_outputs, state |-> asdict(l.cur_state),
                    debug |-> dbg]

NoChatOut == ChatOut(CLocals("idle"), None)

CIdle == c = CLocals("idle") /\ c_out = NoChatOut /\ c_calls = <<>>

\* the keys of the shared context the stages read and write
CtxKeys == {"user_task", "orders_merged", "_orders_merged_df", "orders_merged_preview",
            "orders_merged_columns", "orders_merged_shape", "eda", "analytics"}

\* a context with no key
EmptyCtx == [k \in CtxKeys |-> None]

\* the outcome of a stage: it raised, or it returned the dict `val` whose
\* "context" is `ctx`
StageReturned(cx, v) == [raised |-> FALSE, ctx |-> cx, val |-> v]
StageRaised          == [raised |-> TRUE, ctx |-> EmptyCtx, val |-> PyNone]

\* the locals of OrchestratorAgent.run before the call
OLocals(p) == [pc |-> p, context |-> EmptyCtx, ctx |-> EmptyCtx, raw |-> <<>>,
               step3 |-> StageRaised]

\* the dict OrchestratorAgent.run returns
OrchOut(l) == [summary |-> "Generated 5 insights from EDA.", analytics |-> l.step3.val,
               context |-> l.ctx]

NoOrchOut == OrchOut(OLocals("idle"))

OIdle == orch = OLocals("idle") /\ orch_out = NoOrchOut

\* the locals of RAGAgent.answer before the call
RagLocals(p) == [pc |-> p, hits |-> <<>>, docs |-> <<>>, context_lines |-> <<>>,
                 out |-> None]

\* a request to the endpoint: ChatRequest.state and ChatRequest.show_debug
ChatRequest(st, dbg) == [state |-> st, show_debug |-> dbg]

\* what the endpoint answers: the body of a success (status 200), or the
\* detail of the HTTPException (status 500)
Success(answer, tools, st, outs, dbg) ==
    [status |-> 200, final_answer |-> answer, used_tools |-> tools, state |-> st,
     tool_outputs |-> outs, debug |-> dbg, detail |-> None]
Failure(msg, tb) ==
    [status |-> 500, final_answer |-> "", used_tools |-> <<>>, state |-> NoStateArg,
     tool_outputs |-> None, debug |-> None,
     detail |-> Some([message |-> msg, traceback |-> tb])]

\* the endpoint before a request
ApiLocals(p) == [pc |-> p, req |-> ChatRequest(NoStateArg, FALSE), resp |-> None]

\* the sanitizer harness before a value is drawn
SanLocals(p) == [pc |-> p, obj |-> PyNone, by_chat |-> None, by_api |-> None]

YIdle == srv = None /\ ldr = None /\ ui = None /\ eda = None

XIdle == rag = RagLocals("idle") /\ api = ApiLocals("idle") /\ twin = None
         /\ san = SanLocals("off") /\ YIdle

\* ---------------------------------------------------------------------
\* SQL texts the validator is applied to
\* ---------------------------------------------------------------------
UpperChar(ch) == IF \E u \in UpperChars : LowerOf[u] = ch
                 THEN CHOOSE u \in UpperChars : LowerOf[u] = ch ELSE ch

Upper(s) == [i \in 1..Len(s) |-> UpperChar(s[i])]

UnsafeKeywords == {w_update, w_delete, w_insert, w_alter, w_drop, w_create,
                   w_replace, w_truncate}

SqlPieces == { w_select, Upper(w_select), w_drop, <<"D","e","l","e","t","e">>,
               <<" ">>, <<"\n">>, <<";">>, <<"x">> }

RECURSIVE PieceTexts(_)
PieceTexts(n) ==
    IF n = 0 THEN { <<>> }
    ELSE LET prev == PieceTexts(n - 1)
         IN prev \cup { t \o p : t \in prev, p \in SqlPieces }

KeywordTails == { <<>>, <<" ">>, <<" ","x">>, <<"\n","x">>, <<"\t","x">>,
                  <<"(","x",")">>, <<"d","_","a","t">> }

KeywordTexts == { w_select \o <<" ">> \o k \o t :
                    k \in UnsafeKeywords \cup { Upper(w) : w \in UnsafeKeywords },
                    t \in KeywordTails }

SqlTexts == PieceTexts(MaxPieces) \cup KeywordTexts

\* ---------------------------------------------------------------------
\* The validator applied to one SQL text
\* ---------------------------------------------------------------------
InitValidate ==
    /\ v_pc = "ready"
    /\ v_sql \in SqlTexts
    /\ v_safe = FALSE
    /\ RIdle /\ QIdle /\ CIdle /\ OIdle /\ XIdle

\* sql = self._normalize_sql(sql_raw)
NormalizeSql ==
    /\ v_pc = "ready"
    /\ v_sql' = _normalize_sql(v_sql)
    /\ v_pc' = "normalized"
    /\ UNCHANGED <<xVars, v_safe, rVars, oVars, qVars, cVars>>

\* self._is_safe_sql(sql)
ValidateSql ==
    /\ v_pc \in {"ready", "normalized"}
    /\ v_safe' = _is_safe_sql(v_sql)
    /\ v_pc' = "done"
    /\ UNCHANGED <<xVars, v_sql, rVars, oVars, qVars, cVars>>

NextValidate == NormalizeSql \/ ValidateSql

SpecValidate == InitValidate /\ [][NextValidate]_vars

\* ---------------------------------------------------------------------
\* C5
\* ---------------------------------------------------------------------
\* the text contains keyword k, in any letter case, anywhere
HasKeyword(sql, k) == Contains(Lower(sql), k)

\* the text contains keyword k, in any letter case, immediately followed by a space
HasKeywordSpace(sql, k) == Contains(Lower(sql), k \o <<" ">>)

\* C5 (as stated): _is_safe_sql returns false for every SQL string that does
\* not start with select (case-insensitive), or contains one of the unsafe
\* keywords anywhere (case-insensitive), or contains a semicolon.
C5_Original ==
    v_pc = "done" =>
        ( ( \/ ~StartsWith(Lower(v_sql), w_select)
            \/ \E k \in UnsafeKeywords : HasKeyword(v_sql, k)
            \/ Contains(v_sql, <<";">>) )
          => v_safe = FALSE )

\* C5 (amended): _is_safe_sql returns false for every SQL string that does
\* not start with select (case-insensitive), or contains one of the unsafe
\* keywords immediately followed by a space character (case-insensitive), or
\* contains a semicolon.
C5_Validate ==
    v_pc = "done" =>
        ( ( \/ ~StartsWith(Lower(v_sql), w_select)
            \/ \E k \in UnsafeKeywords : HasKeywordSpace(v_sql, k)
            \/ Contains(v_sql, <<";">>) )
          => v_safe = FALSE )

\* a text that starts with select and is rejected for a semicolon alone
C5_Witness ==
    /\ v_pc = "done"
    /\ StartsWith(Lower(v_sql), w_select)
    /\ \A k \in UnsafeKeywords : ~HasKeyword(v_sql, k)
    /\ Contains(v_sql, <<";">>)
    /\ v_safe = FALSE

\* ---------------------------------------------------------------------
\* Texts the classifier oracle returns
\* ---------------------------------------------------------------------
c_unknown == <<"u","n","k","n","o","w","n","_","v","a","l","u","e">>

\* values written for the intent key
IntentValueToks ==
    { Tok("str", i) : i \in Intent } \cup
    { Tok("str", Upper(I_sql)), Tok("str", <<" ">> \o I_rag \o <<"\n">>),
      Tok("str", <<"G","e","n","e","r","a","l">>),
      Tok("str", c_unknown), Tok("str", <<>>),
      Tok("num", <<"5">>), Tok("lit", c_null), Tok("lit", c_true) }

Member(key, valtok) == <<Tok("str", key), Colon, valtok>>

Obj(members) == <<LBrace>> \o members \o <<RBrace>>

t_reason == Tok("str", <<"w","h","y">>)
t_word   == Tok("word", <<"S","u","r","e">>)

\* JSON objects
ObjectTexts ==
    { Obj(Member(k_intent, v)) : v \in IntentValueToks } \cup
    { Obj(Member(k_intent, v) \o <<Comma>> \o Member(k_reason, t_reason)) : v \in IntentValueToks } \cup
    { Obj(Member(k_intent, Tok("str", c_unknown)) \o <<Comma>> \o Member(k_intent, v)) :
          v \in {Tok("str", I_sql), Tok("str", c_unknown)} } \cup
    { Obj(<<>>),
      Obj(Member(k_reason, t_reason)),
      Obj(Member(k_need, Tok("lit", c_true)) \o <<Comma>> \o Member(k_followup, t_reason)) }

\* texts that are not a JSON object
OtherTexts ==
    { <<>>,
      <<t_word>>,
      <<t_word, t_word>>,
      <<Tok("num", <<"5">>)>>,
      <<Tok("num", <<"0">>)>>,
      <<Tok("str", I_sql)>>,
      <<Tok("str", <<>>)>>,
      <<Tok("lit", c_null)>>,
      <<Tok("lit", c_true)>>,
      <<Tok("lit", c_false)>>,
      <<LBracket, RBracket>>,
      <<LBracket, Tok("num", <<"5">>), RBracket>>,
      <<LBracket, Tok("str", I_sql), Comma, Tok("str", I_rag), RBracket>>,
      <<LBrace>>,
      <<RBrace, LBrace>>,
      <<LBrace, t_word, RBrace>>,
      <<LBrace, Tok("str", k_intent), Colon, RBrace>>,
      <<LBrace, Tok("str", k_intent), Tok("str", I_sql), RBrace>>,
      <<LBrace, Tok("str", k_intent), Colon, Tok("str", I_sql), Comma, RBrace>>,
      Obj(Member(k_intent, Tok("str", I_sql))) \o Obj(Member(k_intent, Tok("str", I_rag))),
      <<Fence>>,
      <<Fence, Fence>> }

RECURSIVE Prose(_)
Prose(n) == IF n = 0 THEN { <<>> } ELSE Prose(n - 1) \cup { p \o <<t_word>> : p \in Prose(n - 1) }

\* a body, bare or inside code fences, with up to MaxWords words of prose
\* before and after it
Wrapped(bodies) ==
    { pre \o open \o b \o close \o post :
        pre \in Prose(MaxWords), post \in Prose(MaxWords), b \in bodies,
        open \in { <<>>, <<Fence>>, <<Fence, Tok("word", c_json)>>,
                   <<Fence, Tok("word", Upper(c_json))>> },
        close \in { <<>>, <<Fence>> } }

RouteTexts == Wrapped(ObjectTexts \cup OtherTexts)

\* ---------------------------------------------------------------------
\* The router applied to one oracle text
\* ---------------------------------------------------------------------
InitRoute ==
    /\ r_pc = "ready"
    /\ r_raw \in RouteTexts
    /\ r_out = RouteRaised
    /\ VIdle /\ QIdle /\ CIdle /\ OIdle /\ XIdle

\* route = self._route_intent(...): the decision, or the exception it raised
RouteIntent ==
    /\ r_pc = "ready"
    /\ r_out' = _route_intent(r_raw)
    /\ r_pc' = "done"
    /\ UNCHANGED <<xVars, r_raw, vVars, oVars, qVars, cVars>>

NextRoute == RouteIntent

SpecRoute == InitRoute /\ [][NextRoute]_vars

\* ---------------------------------------------------------------------
\* C3
\* ---------------------------------------------------------------------
\* the tokens are a JSON object
IsJsonObject(toks) == JsonValid(toks) /\ toks # <<>> /\ toks[1] = LBrace

\* a JSON object is the whole text (code fences apart) or the part of it
\* between the first and the last brace
YieldsObject(raw) ==
    \/ IsJsonObject(StripFences(raw))
    \/ ~JsonValid(StripFences(raw)) /\ IsJsonObject(BraceMatch(StripFences(raw)))

\* C3: for every text the oracle can return to the intent classifier,
\* _route_intent never raises an error, and when the text holds no JSON
\* object (empty text, prose, braces that do not form valid JSON, a JSON
\* value that is not an object) it returns a decision with intent hybrid.
C3_RouteNeverRaises ==
    r_pc = "done" =>
        /\ ~r_out.raised
        /\ (~YieldsObject(r_raw) => r_out.val.intent = I_hybrid)

\* ---------------------------------------------------------------------
\* SQLAgent.query
\* ---------------------------------------------------------------------
\* one call made by query: op is the callee, sql the SQL text it was given or
\* produced, verdict what came back, result the rows of an execution
Call(o, text, v, res) == [op |-> o, sql |-> text, verdict |-> v, result |-> res]

\* what the relational store returns for one statement, before truncation:
\* RowCounts rows, numbered in the order the store returns them
RowCounts == {0, 1, 6, top_n, top_n + MaxExtraRows}

StoreOutputs == { Result(cols, [i \in 1..n |-> i]) :
                    cols \in { <<"a">>, <<"a", "b">> }, n \in RowCounts }

s_select_x == w_select \o <<" ","x">>

\* texts the oracle writes when asked for SQL
SqlCores == { s_select_x,
              Upper(w_select) \o <<" ","x">>,
              s_select_x \o <<";">> \o w_drop \o <<" ","x">>,
              w_select \o <<" ">> \o w_delete \o <<" ","x">>,
              w_select \o <<" ">> \o w_drop,
              w_drop \o <<" ","x">>,
              <<"x">> }

SqlOpenings == { <<>>, <<" ">>, fence_chars \o <<"s","q","l","\n">>,
                 fence_chars \o <<"S","Q","L"," ">>, fence_chars }

SqlEndings == { <<>>, <<";">>, <<";"," ">>, <<";",";">>, <<"\n">> \o fence_chars,
                <<";","\n">> \o fence_chars }

QueryTexts == { a \o core \o z : a \in SqlOpenings, core \in SqlCores, z \in SqlEndings }

\* an oracle call or an execution raised: the exception leaves query
QRaise(o, text) ==
    /\ q' = [q EXCEPT !.pc = "raised"]
    /\ q_log' = Append(q_log, Call(o, text, "error", NoResult))
    /\ UNCHANGED q_out

\* sql_raw_1 = self._generate_sql(normalized_q); sql_1 = self._normalize_sql(sql_raw_1)
QGenerate(texts) ==
    /\ q.pc = "start"
    /\ \/ \E t \in texts :
            LET sql_1 == _normalize_sql(CleanSql(t))
            IN /\ q' = [q EXCEPT !.pc = "generated", !.sql_1 = sql_1]
               /\ q_log' = Append(q_log, Call("generate", sql_1, "ok", NoResult))
               /\ UNCHANGED q_out
       \/ QRaise("generate", <<>>)
    /\ UNCHANGED <<q_conn, xVars, vVars, oVars, rVars, cVars>>

\* a query that runs the first SQL whatever the validator said
mut_QValidate_ignored ==
    /\ q.pc = "generated"
    /\ q_log' = Append(q_log, Call("validate", q.sql_1,
                                   IF _is_safe_sql(q.sql_1) THEN "safe" ELSE "unsafe", NoResult))
    /\ q' = [q EXCEPT !.pc = "validated"]
    /\ UNCHANGED <<q_conn, xVars, q_out, vVars, oVars, rVars, cVars>>

\* if not self._is_safe_sql(sql_1): raise ValueError(...)
QValidate ==
    /\ q.pc = "generated"
    /\ q_log' = Append(q_log, Call("validate", q.sql_1,
                                   IF _is_safe_sql(q.sql_1) THEN "safe" ELSE "unsafe", NoResult))
    /\ q' = [q EXCEPT !.pc = IF _is_safe_sql(q.sql_1) THEN "validated" ELSE "raised"]
    /\ UNCHANGED <<q_conn, xVars, q_out, vVars, oVars, rVars, cVars>>

\* a query that also takes a single row for an empty result
mut_QExecute_one_row_empty(outputs) ==
    /\ q.pc = "validated"
    /\ \/ \E raw \in outputs :
            LET result_1 == _run_sql(raw)
            IN /\ q' = [q EXCEPT !.pc = IF Len(result_1.rows) <= 1 THEN "fallback" ELSE "summarize",
                                 !.result_1 = result_1,
                                 !.used_fallback = FALSE,
                                 !.sql_used = q.sql_1,
                                 !.result_used = result_1,
                                 !.sql_fallback = <<>>]
               /\ q_log' = Append(q_log, Call("execute", q.sql_1, "ok", result_1))
               /\ q_conn' = ScopedConn(q_conn, "ok")
               /\ UNCHANGED q_out
       \/ /\ QRaise("execute", q.sql_1)
          /\ \E failure \in {"connect", "execute"} : q_conn' = ScopedConn(q_conn, failure)
    /\ UNCHANGED <<xVars, vVars, oVars, rVars, cVars>>

\* result_1 = self._run_sql(sql_1); used_fallback = False; sql_used = sql_1;
\* result_used = result_1; sql_fallback = ""; if len(result_1["rows"]) == 0: ...
QExecute(outputs) ==
    /\ q.pc = "validated"
    /\ \/ \E raw \in outputs :
            LET result_1 == _run_sql(raw)
            IN /\ q' = [q EXCEPT !.pc = IF Len(result_1.rows) = 0 THEN "fallback" ELSE "summarize",
                                 !.result_1 = result_1,
                                 !.used_fallback = FALSE,
                                 !.sql_used = q.sql_1,
                                 !.result_used = result_1,
                                 !.sql_fallback = <<>>]
               /\ q_log' = Append(q_log, Call("execute", q.sql_1, "ok", result_1))
               /\ q_conn' = ScopedConn(q_conn, "ok")
               /\ UNCHANGED q_out
       \/ /\ QRaise("execute", q.sql_1)
          /\ \E failure \in {"connect", "execute"} : q_conn' = ScopedConn(q_conn, failure)
    /\ UNCHANGED <<xVars, vVars, oVars, rVars, cVars>>

\* sql_raw_2 = self._generate_fallback_sql(normalized_q, sql_1);
\* sql_2 = self._normalize_sql(sql_raw_2)
QGenerateFallback(texts) ==
    /\ q.pc = "fallback"
    /\ \/ \E t \in texts :
            LET sql_2 == _normalize_sql(CleanSql(t))
            IN /\ q' = [q EXCEPT !.pc = "fb_generated", !.sql_2 = sql_2]
               /\ q_log' = Append(q_log, Call("generate_fallback", sql_2, "ok", NoResult))
               /\ UNCHANGED q_out
       \/ QRaise("generate_fallback", <<>>)
    /\ UNCHANGED <<q_conn, xVars, vVars, oVars, rVars, cVars>>

\* a query that treats an unsafe fallback like an unsafe first SQL
mut_QValidateFallback_raises ==
    /\ q.pc = "fb_generated"
    /\ q_log' = Append(q_log, Call("validate", q.sql_2,
                                   IF _is_safe_sql(q.sql_2) THEN "safe" ELSE "unsafe", NoResult))
    /\ q' = [q EXCEPT !.pc = IF _is_safe_sql(q.sql_2) THEN "fb_validated" ELSE "raised"]
    /\ UNCHANGED <<q_conn, xVars, q_out, vVars, oVars, rVars, cVars>>

\* if self._is_safe_sql(sql_2): ... (an unsafe fallback is skipped, not raised)
QValidateFallback ==
    /\ q.pc = "fb_generated"
    /\ q_log' = Append(q_log, Call("validate", q.sql_2,
                                   IF _is_safe_sql(q.sql_2) THEN "safe" ELSE "unsafe", NoResult))
    /\ q' = [q EXCEPT !.pc = IF _is_safe_sql(q.sql_2) THEN "fb_validated" ELSE "summarize"]
    /\ UNCHANGED <<q_conn, xVars, q_out, vVars, oVars, rVars, cVars>>

\* a query that forgets to set used_fallback
mut_QExecuteFallback_flag_unset(outputs) ==
    /\ q.pc = "fb_validated"
    /\ \/ \E raw \in outputs :
            LET result_2 == _run_sql(raw)
            IN /\ q' = [q EXCEPT !.pc = "summarize",
                                 !.sql_used = q.sql_2,
                                 !.result_used = result_2,
                                 !.sql_fallback = q.sql_2]
               /\ q_log' = Append(q_log, Call("execute", q.sql_2, "ok", result_2))
               /\ q_conn' = ScopedConn(q_conn, "ok")
               /\ UNCHANGED q_out
       \/ /\ QRaise("execute", q.sql_2)
          /\ \E failure \in {"connect", "execute"} : q_conn' = ScopedConn(q_conn, failure)
    /\ UNCHANGED <<xVars, vVars, oVars, rVars, cVars>>

\* a query that asks for another fallback when the fallback result is empty too
mut_QExecuteFallback_retries(outputs) ==
    /\ q.pc = "fb_validated"
    /\ \/ \E raw \in outputs :
            LET result_2 == _run_sql(raw)
            IN /\ q' = [q EXCEPT !.pc = IF Len(result_2.rows) = 0 THEN "fallback" ELSE "summarize",
                                 !.sql_used = q.sql_2,
                                 !.result_used = result_2,
                                 !.sql_fallback = q.sql_2,
                                 !.used_fallback = TRUE]
               /\ q_log' = Append(q_log, Call("execute", q.sql_2, "ok", result_2))
               /\ q_conn' = ScopedConn(q_conn, "ok")
               /\ UNCHANGED q_out
       \/ /\ QRaise("execute", q.sql_2)
          /\ \E failure \in {"connect", "execute"} : q_conn' = ScopedConn(q_conn, failure)
    /\ UNCHANGED <<xVars, vVars, oVars, rVars, cVars>>

\* a query that keeps the empty first result when the fallback execution fails
mut_QExecuteFallback_swallows(outputs) ==
    /\ q.pc = "fb_validated"
    /\ \/ \E raw \in outputs :
            LET result_2 == _run_sql(raw)
            IN /\ q' = [q EXCEPT !.pc = "summarize",
                                 !.sql_used = q.sql_2,
                                 !.result_used = result_2,
                                 !.sql_fallback = q.sql_2,
                                 !.used_fallback = TRUE]
               /\ q_log' = Append(q_log, Call("execute", q.sql_2, "ok", result_2))
               /\ q_conn' = ScopedConn(q_conn, "ok")
               /\ UNCHANGED q_out
       \/ /\ q' = [q EXCEPT !.pc = "summarize"]
          /\ q_log' = Append(q_log, Call("execute", q.sql_2, "error", NoResult))
          /\ \E failure \in {"connect", "execute"} : q_conn' = ScopedConn(q_conn, failure)
          /\ UNCHANGED q_out
    /\ UNCHANGED <<xVars, vVars, oVars, rVars, cVars>>

\* a query that runs the fallback and still reports the first SQL as used
mut_QExecuteFallback_keeps_first_sql(outputs) ==
    /\ q.pc = "fb_validated"
    /\ \/ \E raw \in outputs :
            LET result_2 == _run_sql(raw)
            IN /\ q' = [q EXCEPT !.pc = "summarize",
                                 !.result_used = result_2,
                                 !.sql_fallback = q.sql_2,
                                 !.used_fallback = TRUE]
               /\ q_log' = Append(q_log, Call("execute", q.sql_2, "ok", result_2))
               /\ q_conn' = ScopedConn(q_conn, "ok")
               /\ UNCHANGED q_out
       \/ /\ QRaise("execute", q.sql_2)
          /\ \E failure \in {"connect", "execute"} : q_conn' = ScopedConn(q_conn, failure)
    /\ UNCHANGED <<xVars, vVars, oVars, rVars, cVars>>

\* result_2 = self._run_sql(sql_2); sql_used = sql_2; result_used = result_2;
\* sql_fallback = sql_2; used_fallback = True
QExecuteFallback(outputs) ==
    /\ q.pc = "fb_validated"
    /\ \/ \E raw \in outputs :
            LET result_2 == _run_sql(raw)
            IN /\ q' = [q EXCEPT !.pc = "summarize",
                                 !.sql_used = q.sql_2,
                                 !.result_used = result_2,
                                 !.sql_fallback = q.sql_2,
                                 !.used_fallback = TRUE]
               /\ q_log' = Append(q_log, Call("execute", q.sql_2, "ok", result_2))
               /\ q_conn' = ScopedConn(q_conn, "ok")
               /\ UNCHANGED q_out
       \/ /\ QRaise("execute", q.sql_2)
          /\ \E failure \in {"connect", "execute"} : q_conn' = ScopedConn(q_conn, failure)
    /\ UNCHANGED <<xVars, vVars, oVars, rVars, cVars>>

\* summary = self._summarize(question, sql_used, result_used, ...); return {...}
QSummarize ==
    /\ q.pc = "summarize"
    /\ \/ /\ q' = [q EXCEPT !.pc = "returned"]
          /\ q_log' = Append(q_log, Call("summarize", q.sql_used, "ok", q.result_used))
          /\ q_out' = QueryOut(q, "summary")
       \/ QRaise("summarize", q.sql_used)
    /\ UNCHANGED <<q_conn, xVars, vVars, oVars, rVars, cVars>>

\* SQLAgent.__init__: self._categories = self._load_categories()
\* (when it raises there is no agent to query)
QLoadCategories ==
    /\ q.pc = "new"
    /\ \/ /\ q' = [q EXCEPT !.pc = "start"]
          /\ q_conn' = ScopedConn(q_conn, "ok")
       \/ /\ q' = [q EXCEPT !.pc = "no_agent"]
          /\ \E failure \in {"connect", "execute"} : q_conn' = ScopedConn(q_conn, failure)
    /\ UNCHANGED <<q_out, q_log, xVars, vVars, oVars, rVars, cVars>>

InitQuery ==
    /\ q = QLocals("new")
    /\ q_out = NoQueryOut
    /\ q_log = <<>>
    /\ q_conn = <<>>
    /\ VIdle /\ RIdle /\ CIdle /\ OIdle /\ XIdle

NextQuery ==
    \/ QLoadCategories
    \/ QGenerate(QueryTexts)
    \/ QValidate
    \/ QExecute(StoreOutputs)
    \/ QGenerateFallback(QueryTexts)
    \/ QValidateFallback
    \/ QExecuteFallback(StoreOutputs)
    \/ QSummarize

SpecQuery == InitQuery /\ [][NextQuery]_vars

\* query is one synchronous call: the interpreter runs its next statement
\* whenever there is one, and every oracle call and execution it waits for
\* returns or raises
SpecQueryLive == SpecQuery /\ WF_vars(NextQuery)

\* ---------------------------------------------------------------------
\* C4, C6, C7, C8
\* ---------------------------------------------------------------------
\* the text starts with select, holds no unsafe keyword followed by a space
\* and no semicolon
SafeByText(sql) ==
    /\ StartsWith(Lower(sql), w_select)
    /\ \A k \in UnsafeKeywords : ~HasKeywordSpace(sql, k)
    /\ ~Contains(sql, <<";">>)

\* the positions of the calls of one kind
CallsOf(o) == { i \in 1..Len(q_log) : q_log[i].op = o }

\* the first execution has returned, with no row
FirstEmpty ==
    /\ Len(q_log) >= 3
    /\ q_log[3].op = "execute" /\ q_log[3].verdict = "ok"
    /\ Len(q_log[3].result.rows) = 0

QueryEnded == q.pc \in {"returned", "raised"}

\* C4: every SQL text handed to the executor has passed _is_safe_sql in the
\* call made immediately before; when the first generated text fails
\* validation, query raises and has executed no SQL.
C4_ValidatedBeforeExecute ==
    /\ \A i \in CallsOf("execute") :
          /\ i > 1
          /\ q_log[i - 1].op = "validate"
          /\ q_log[i - 1].verdict = "safe"
          /\ q_log[i - 1].sql = q_log[i].sql
          /\ SafeByText(q_log[i].sql)
    /\ (Len(q_log) >= 2 /\ q_log[2].verdict = "unsafe")
          => (q.pc = "raised" /\ CallsOf("execute") = {})

\* the first generated text failed validation
C4_Witness ==
    /\ Len(q_log) = 2 /\ q_log[2].op = "validate" /\ q_log[2].verdict = "unsafe"
    /\ q.pc = "raised"

\* C6: the fallback SQL generation is invoked exactly once when the first
\* validated execution returns zero rows, and not at all when the first
\* execution returns at least one row or raises an execution error.
C6_FallbackOnce ==
    /\ Cardinality(CallsOf("generate_fallback")) <= 1
    /\ (CallsOf("generate_fallback") # {}) => FirstEmpty
    /\ (QueryEnded /\ FirstEmpty) => Cardinality(CallsOf("generate_fallback")) = 1
    /\ (Len(q_log) >= 3 /\ q_log[3].op = "execute" /\ q_log[3].verdict = "error")
          => (q.pc = "raised" /\ Len(q_log) = 3)

\* a query that ended after an empty first result and one fallback generation
C6_Witness ==
    /\ q.pc = "returned" /\ FirstEmpty
    /\ Cardinality(CallsOf("generate_fallback")) = 1

\* a fallback text was generated, passed validation and was executed
FallbackRan ==
    \E i \in CallsOf("generate_fallback") :
        /\ q_log[i].verdict = "ok"
        /\ Len(q_log) >= i + 2
        /\ q_log[i + 1].op = "validate" /\ q_log[i + 1].verdict = "safe"
        /\ q_log[i + 1].sql = q_log[i].sql
        /\ q_log[i + 2].op = "execute" /\ q_log[i + 2].verdict = "ok"
        /\ q_log[i + 2].sql = q_log[i].sql

\* C7: in every result query returns, used_fallback is true if and only if
\* the first query returned zero rows and a fallback query was generated,
\* passed validation and was executed.
C7_UsedFallbackIff ==
    q.pc = "returned" => (q_out.used_fallback <=> (FirstEmpty /\ FallbackRan))

\* a result returned after the fallback ran
C7_Witness == q.pc = "returned" /\ q_out.used_fallback /\ FirstEmpty /\ FallbackRan

\* the first result was empty and the generated fallback failed validation
UnsafeFallback ==
    /\ FirstEmpty
    /\ Len(q_log) >= 5
    /\ q_log[4].op = "generate_fallback" /\ q_log[4].verdict = "ok"
    /\ q_log[5].op = "validate" /\ q_log[5].verdict = "unsafe"

\* C8: when the first query returns zero rows and the generated fallback SQL
\* fails validation, query does not execute the fallback and the failed
\* validation raises nothing (query goes on to Summarize); the dict it returns
\* has used_fallback false, sql_used equal to the first SQL, an empty
\* sql_fallback and the empty first result.
C8_UnsafeFallbackSkipped ==
    UnsafeFallback =>
        /\ CallsOf("execute") = {3}
        /\ Len(q_log) = 5 => q.pc = "summarize"
        /\ Len(q_log) > 5 => q_log[6].op = "summarize"
        /\ q.pc = "returned" =>
              /\ q_out.used_fallback = FALSE
              /\ q_out.sql_initial = q_log[1].sql
              /\ q_out.sql_used = q_log[1].sql
              /\ q_out.sql_fallback = <<>>
              /\ q_out.result = q_log[3].result
              /\ q_out.result.rows = <<>>

\* a result returned after an unsafe fallback
C8_Witness == UnsafeFallback /\ q.pc = "returned"

\* ---------------------------------------------------------------------
\* Analytics pipeline: DataAgent, EDAAgent, InsightAgent, OrchestratorAgent
\* ---------------------------------------------------------------------
\* a table: its number of rows and of columns
Df(n, k) == [rows |-> n, ncols |-> k]

\* DataAgent.run: result_context = context.copy() with the merged table under
\* "_orders_merged_df" and its preview (df.head(20)), columns and shape
DataAgentRun(context, df) ==
    StageReturned(
        [context EXCEPT !["_orders_merged_df"] = Some(df),
                        !["orders_merged_preview"] = Some(IF df.rows < 20 THEN df.rows ELSE 20),
                        !["orders_merged_columns"] = Some(df.ncols),
                        !["orders_merged_shape"] = Some(<<df.rows, df.ncols>>)],
        PyNone)

\* EDAAgent.run: if "orders_merged" not in context: raise ValueError(...);
\* df = context["orders_merged"]; ...; new_ctx["eda"] = eda
EDAAgentRun(context) ==
    IF context["orders_merged"] = None
    THEN StageRaised
    ELSE LET df == context["orders_merged"][1]
         IN StageReturned([context EXCEPT !["eda"] = Some([shape |-> <<df.rows, df.ncols>>])],
                          PyNone)

k_insights == <<"i","n","s","i","g","h","t","s">>

PyList(elems) == PyVal("list", <<>>, elems)

\* the skeleton InsightAgent.run takes when the text holds no braces
Skeleton ==
    PyVal("dict", <<>>,
          << [key |-> <<"headline">>, val |-> PyStr(<<"Analytics summary">>)],
             [key |-> k_insights, val |-> PyList(<<>>)],
             [key |-> <<"next_questions">>, val |-> PyList(<<>>)] >>)

\* the entry InsightAgent.run pads with
Placeholder == TitledObject("Insight tambahan (butuh data)")

\* d[key] = v of a dict
DictSet(d, key, v) ==
    IF \E i \in 1..Len(d.items) : d.items[i].key = key
    THEN [d EXCEPT !.items = [i \in 1..Len(d.items) |->
                                 IF d.items[i].key = key
                                 THEN [key |-> key, val |-> v] ELSE d.items[i]]]
    ELSE [d EXCEPT !.items = Append(d.items, [key |-> key, val |-> v])]

\* len(x) of a str, list or dict
PyLen(x) == IF x.t = "str" THEN Len(x.s) ELSE Len(x.items)

\* a guard that truncates and does not pad
mut_EnsureFive_no_padding(got) ==
    LET insights == IF Truthy(got) THEN got ELSE PyList(<<>>)
    IN IF insights.t \notin {"str", "list", "dict"} THEN Raised
       ELSE IF PyLen(insights) > 5
       THEN IF insights.t = "list" THEN Returned(PyList(SubSeq(insights.items, 1, 5)))
            ELSE IF insights.t = "str" THEN Returned(PyStr(SubSeq(insights.s, 1, 5)))
            ELSE Raised
       ELSE Returned(insights)

\* InsightAgent.run: insights = analytics.get("insights") or [];
\* if len(insights) > 5: insights = insights[:5];
\* while len(insights) < 5: insights.append({...})
\* (len of a number or a bool, a slice of a dict and append on a str or a dict raise)
EnsureFive(got) ==
    LET insights == IF Truthy(got) THEN got ELSE PyList(<<>>)
    IN IF insights.t \notin {"str", "list", "dict"} THEN Raised
       ELSE IF PyLen(insights) > 5
       THEN IF insights.t = "list" THEN Returned(PyList(SubSeq(insights.items, 1, 5)))
            ELSE IF insights.t = "str" THEN Returned(PyStr(SubSeq(insights.s, 1, 5)))
            ELSE Raised
       ELSE IF PyLen(insights) < 5
       THEN IF insights.t = "list"
            THEN Returned(PyList(insights.items \o
                                 [i \in 1..(5 - Len(insights.items)) |-> Placeholder]))
            ELSE Raised
       ELSE Returned(insights)

\* InsightAgent.run: the analytics value taken from the oracle's text
LoadAnalytics(raw) ==
    LET txt == StripFences(raw)
    IN IF JsonValid(txt) THEN Returned(JsonValue(txt))
       ELSE LET m == BraceMatch(txt)
            IN IF m = <<>> THEN Returned(Skeleton)
               ELSE IF JsonValid(m) THEN Returned(JsonValue(m))
               ELSE Raised

\* InsightAgent.run, from the context and the text the oracle returned
InsightAgentRun(context, raw) ==
    IF context["eda"] = None THEN StageRaised
    ELSE LET loaded == LoadAnalytics(raw)
         IN IF loaded.raised THEN StageRaised
            \* analytics.get on a value that is not a dict raises AttributeError
            ELSE IF loaded.val.t # "dict" THEN StageRaised
            ELSE LET five == EnsureFive(DictGet(loaded.val, k_insights, PyNone))
                 IN IF five.raised THEN StageRaised
                    ELSE LET analytics == DictSet(loaded.val, k_insights, five.val)
                         IN StageReturned([context EXCEPT !["analytics"] = Some(analytics)],
                                          analytics)

\* OrchestratorAgent.run: ctx = dict(context or {}); ctx["user_task"] = task
OrchCtx(context) == [context EXCEPT !["user_task"] = Some("task")]

\* OrchestratorAgent.run: the three stages in sequence, from the table the
\* loader holds and the text the oracle returns
OrchestratorRun(context, df, raw) ==
    LET step1 == DataAgentRun(OrchCtx(context), df)
        step2 == EDAAgentRun(step1.ctx)
    IN IF step2.raised THEN StageRaised
       ELSE InsightAgentRun(step2.ctx, raw)

\* ---------------------------------------------------------------------
\* OrchestratorAgent.run, stage by stage
\* ---------------------------------------------------------------------
\* the largest number of insights the oracle writes
MaxOracleInsights == 7

InsightTitles == <<"i1", "i2", "i3", "i4", "i5", "i6", "i7", "i8", "i9", "i10">>

\* an array of n insight objects
InsightArray(n) == Tok("arr", SubSeq(InsightTitles, 1, n))

\* values written for the insights key
InsightValueToks ==
    { InsightArray(n) : n \in 0..MaxOracleInsights } \cup
    { Tok("lit", c_null), Tok("lit", c_true), Tok("num", <<"5">>), Tok("str", <<>>),
      Tok("str", I_sql), Tok("str", I_rag \o I_sql), Tok("str", I_general) }

\* the texts the oracle returns to insight synthesis
InsightBodies ==
    { Obj(Member(k_insights, v)) : v \in InsightValueToks } \cup
    { Obj(Member(<<"headline">>, t_reason) \o <<Comma>> \o Member(k_insights, InsightArray(n))) :
          n \in {0, 3, MaxOracleInsights} } \cup
    { Obj(<<>>),
      Obj(Member(<<"headline">>, t_reason)),
      <<>>,
      <<t_word>>,
      <<Tok("lit", c_null)>>,
      <<Tok("str", I_sql)>>,
      <<LBracket, Tok("num", <<"5">>), RBracket>>,
      <<LBrace, t_word, RBrace>> }

InsightTexts == Wrapped(InsightBodies)

\* the tables the loader holds
Tables == { Df(0, 9), Df(3, 9), Df(25, 9) }

\* the context a caller passes to OrchestratorAgent.run: none, or a dict that
\* may already hold a table or statistics
PipelineContexts ==
    { EmptyCtx,
      [EmptyCtx EXCEPT !["orders_merged"] = Some(Df(3, 9))],
      [EmptyCtx EXCEPT !["eda"] = Some([shape |-> <<3, 9>>])],
      [EmptyCtx EXCEPT !["orders_merged"] = Some(Df(25, 9)),
                       !["analytics"] = Some(Skeleton)] }

\* an exception leaves OrchestratorAgent.run
OrchRaise ==
    /\ orch' = [orch EXCEPT !.pc = "raised"]
    /\ UNCHANGED orch_out

\* run(task, context): ctx = dict(context or {}); ctx["user_task"] = task
OrchStart(contexts) ==
    /\ orch.pc \in {"idle", "returned", "raised"}
    /\ \E cx \in contexts :
          orch' = [OLocals("data") EXCEPT !.context = cx, !.ctx = OrchCtx(cx)]
    /\ orch_out' = NoOrchOut
    /\ UNCHANGED <<xVars, vVars, rVars, qVars, cVars>>

\* step1 = self.data_agent.run(task, ctx); ctx = step1.get("context", ctx)
OrchData(tables) ==
    /\ orch.pc = "data"
    /\ \/ \E df \in tables :
            /\ orch' = [orch EXCEPT !.pc = "eda", !.ctx = DataAgentRun(orch.ctx, df).ctx]
            /\ UNCHANGED orch_out
       \/ OrchRaise
    /\ UNCHANGED <<xVars, vVars, rVars, qVars, cVars>>

\* step2 = self.eda_agent.run(task, ctx); ctx = step2.get("context", ctx)
OrchEda ==
    /\ orch.pc = "eda"
    /\ LET step2 == EDAAgentRun(orch.ctx)
       IN IF step2.raised THEN OrchRaise
          ELSE /\ orch' = [orch EXCEPT !.pc = "insight", !.ctx = step2.ctx]
               /\ UNCHANGED orch_out
    /\ UNCHANGED <<xVars, vVars, rVars, qVars, cVars>>

\* step3 = self.insight_agent.run(task, ctx); ctx = step3.get("context", ctx)
OrchInsight(texts) ==
    /\ orch.pc = "insight"
    /\ \/ \E raw \in texts :
            LET step3 == InsightAgentRun(orch.ctx, raw)
            IN IF step3.raised
               THEN /\ orch' = [orch EXCEPT !.pc = "raised", !.raw = raw]
                    /\ UNCHANGED orch_out
               ELSE /\ orch' = [orch EXCEPT !.pc = "return", !.raw = raw, !.ctx = step3.ctx,
                                      !.step3 = step3]
                    /\ UNCHANGED orch_out
       \/ OrchRaise
    /\ UNCHANGED <<xVars, vVars, rVars, qVars, cVars>>

\* return {"agent": ..., "summary": ..., "analytics": ..., "context": ctx}
OrchReturn ==
    /\ orch.pc = "return"
    /\ orch_out' = OrchOut(orch)
    /\ orch' = [orch EXCEPT !.pc = "returned"]
    /\ UNCHANGED <<xVars, vVars, rVars, qVars, cVars>>

InitPipeline ==
    /\ OIdle /\ VIdle /\ RIdle /\ QIdle /\ CIdle /\ XIdle

NextPipeline ==
    \/ OrchStart(PipelineContexts)
    \/ OrchData(Tables)
    \/ OrchEda
    \/ OrchInsight(InsightTexts)
    \/ OrchReturn

SpecPipeline == InitPipeline /\ [][NextPipeline]_vars

\* ---------------------------------------------------------------------
\* ChatAgent.chat
\* ---------------------------------------------------------------------
\* RAGAgent.__init__: top_k: int = 5
top_k == 5

\* what RAGAgent.answer returns: sources holds one entry per retrieved document
RagOutputs == { [answer |-> "answer", sources |-> [i \in 1..n |-> 100 + i]] :
                  n \in {0, 2, top_k} }

\* tool_outputs["general"] = {"note": "No tool used."}
NoToolNote == [note |-> "No tool used."]

\* a state that is not a dict
ListState == [kind |-> "list", keys |-> {}, vals |-> ChatState(None, None, None, None, None)]

\* a dict with a key that is not a state field
UnknownKeyState ==
    StateDict({"last_intent", "session_id"}, ChatState(Some(I_sql), None, None, None, None))

\* a dict whose fields have values of the wrong shape: an intent that is not
\* one of the five, more than 5 preview rows, more than 3 sources
WrongShapeState ==
    StateDict(StateFields,
              ChatState(Some(c_unknown), Some(s_select_x), Some(<<"k">>),
                        Some(<<1, 2, 3, 4, 5, 6, 7>>), Some(<<9, 10, 11, 12>>)))

MalformedStates == { ListState, UnknownKeyState, WrongShapeState }

\* the state a caller supplies with a turn
ChatStatesIn ==
    { NoStateArg,
      StateDict({}, ChatState(None, None, None, None, None)),
      StateDict(StateFields,
                ChatState(Some(I_rag), Some(s_select_x), Some(<<"k">>), Some(<<7, 8>>), Some(<<9>>))),
      StateDict({"last_intent", "last_rag_top_sources"},
                ChatState(Some(I_general), None, None, None, Some(<<9, 10>>))),
      StateDict({"last_sql", "last_sql_columns", "last_sql_preview_rows"},
                ChatState(None, Some(s_select_x), Some(<<"k">>), Some(<<7>>), None)) }
    \cup MalformedStates

\* the texts the classifier oracle returns in a turn
ChatRouteTexts ==
    { Obj(Member(k_intent, Tok("str", i))) : i \in Intent } \cup
    { Obj(Member(k_intent, Tok("str", Upper(I_sql))) \o <<Comma>> \o Member(k_reason, t_reason)),
      Obj(Member(k_intent, Tok("str", c_unknown))),
      Obj(Member(k_intent, Tok("lit", c_null))),
      Obj(Member(k_reason, t_reason)),
      Obj(<<>>),
      <<t_word>>,
      <<LBracket, Tok("num", <<"5">>), RBracket>>,
      <<LBrace, t_word, RBrace>> }

\* the texts the oracle writes when a turn asks for SQL
ChatSqlTexts == { s_select_x \o <<";">>, w_drop \o <<" ","x">> }

\* what the store returns in a turn
ChatStoreOutputs == { Result(<<"a">>, <<>>), Result(<<"a">>, <<1>>),
                      Result(<<"a", "b">>, <<1, 2, 3, 4, 5, 6>>) }

\* an exception leaves chat: the turn returns nothing
ChatFail(call) ==
    /\ c' = [c EXCEPT !.pc = "failed"]
    /\ c_calls' = IF call = "" THEN c_calls ELSE Append(c_calls, call)
    /\ UNCHANGED c_out

\* chat(user_message, history, answer_lang, state, show_debug):
\* cur_state = ChatState(**state) if isinstance(state, dict) else ChatState()
ChatStart(states) ==
    /\ c.pc \in {"idle", "done", "failed"}
    /\ \E st \in states, dbg \in BOOLEAN :
          c' = IF ChatStateRaises(st)
               THEN [CLocals("failed") EXCEPT !.state_in = st, !.show_debug = dbg]
               ELSE [CLocals("route") EXCEPT !.state_in = st, !.show_debug = dbg,
                                             !.cur_state = ChatStateOf(st)]
    /\ c_out' = NoChatOut
    /\ c_calls' = <<>>
    /\ q' = QLocals("idle") /\ q_out' = NoQueryOut /\ q_log' = <<>> /\ q_conn' = <<>>
    /\ UNCHANGED <<xVars, vVars, oVars, rVars>>

\* route = self._route_intent(...); intent = route.get("intent", "hybrid")
ChatRoute(texts) ==
    /\ c.pc = "route"
    /\ \/ \E t \in texts :
            LET r == _route_intent(t)
            IN IF r.raised
               THEN /\ c' = [c EXCEPT !.pc = "failed", !.cls = t]
                    /\ c_calls' = Append(c_calls, "classify")
                    /\ UNCHANGED c_out
               ELSE /\ c' = [c EXCEPT !.pc = "dispatch", !.cls = t, !.route = r.val]
                    /\ c_calls' = Append(c_calls, "classify")
                    /\ UNCHANGED c_out
       \/ ChatFail("classify")
    /\ UNCHANGED <<xVars, vVars, oVars, rVars, qVars>>

\* the call self.sql_agent.query(user_message, answer_lang) begins
CallQuery ==
    /\ q' = QLocals("start") /\ q_out' = NoQueryOut /\ q_log' = <<>> /\ q_conn' = <<>>
    /\ c_calls' = Append(c_calls, "SQLAgent")

\* if intent == "sql": ... elif intent == "rag": ... elif intent == "analytics": ...
\* elif intent == "hybrid": ... else: ...
ChatDispatch ==
    /\ c.pc = "dispatch"
    /\ LET intent == c.route.intent
       IN CASE intent = I_sql ->
                 /\ c' = [c EXCEPT !.pc = "sql", !.used_tools = Append(@, "SQLAgent")]
                 /\ CallQuery
            [] intent = I_rag ->
                 /\ c' = [c EXCEPT !.pc = "rag", !.used_tools = Append(@, "RAGAgent")]
                 /\ UNCHANGED <<qVars, c_calls>>
            [] intent = I_analytics ->
                 /\ c' = [c EXCEPT !.pc = "analytics", !.used_tools = Append(@, "OrchestratorAgent")]
                 /\ UNCHANGED <<qVars, c_calls>>
            [] intent = I_hybrid ->
                 /\ c' = [c EXCEPT !.pc = "sql", !.used_tools = @ \o <<"SQLAgent", "RAGAgent">>]
                 /\ CallQuery
            [] OTHER ->
                 /\ c' = [c EXCEPT !.pc = "compose", !.tool_outputs.general = Some(NoToolNote)]
                 /\ UNCHANGED <<qVars, c_calls>>
    /\ UNCHANGED <<xVars, c_out, vVars, oVars, rVars>>

\* a hybrid turn that skips retrieval when the SQL result has no row
mut_ChatSqlReturn_skips_rag ==
    /\ c.pc = "sql" /\ q.pc = "returned"
    /\ c' = [c EXCEPT !.tool_outputs.sql = Some(q_out),
                      !.pc = IF c.route.intent = I_hybrid /\ q_out.result.rows # <<>>
                             THEN "rag" ELSE "compose"]
    /\ UNCHANGED <<xVars, c_out, c_calls, vVars, oVars, rVars, qVars>>

\* tool_outputs["sql"] = self.sql_agent.query(...): query has returned
ChatSqlReturn ==
    /\ c.pc = "sql" /\ q.pc = "returned"
    /\ c' = [c EXCEPT !.tool_outputs.sql = Some(q_out),
                      !.pc = IF c.route.intent = I_hybrid THEN "rag" ELSE "compose"]
    /\ UNCHANGED <<xVars, c_out, c_calls, vVars, oVars, rVars, qVars>>

\* a hybrid turn that swallows the failure of the SQL tool and goes on to
\* retrieval
mut_ChatSqlRaise_swallowed ==
    /\ c.pc = "sql" /\ q.pc = "raised"
    /\ c' = [c EXCEPT !.pc = IF c.route.intent = I_hybrid THEN "rag" ELSE "failed"]
    /\ UNCHANGED <<xVars, c_out, c_calls, vVars, oVars, rVars, qVars>>

\* self.sql_agent.query(...) raised: the exception leaves chat
ChatSqlRaise ==
    /\ c.pc = "sql" /\ q.pc = "raised"
    /\ ChatFail("")
    /\ UNCHANGED <<xVars, vVars, oVars, rVars, qVars>>

\* tool_outputs["rag"] = self.rag_agent.answer(user_message)
ChatRag(outputs) ==
    /\ c.pc = "rag"
    /\ \/ \E o \in outputs :
            /\ c' = [c EXCEPT !.pc = "compose", !.tool_outputs.rag = Some(o)]
            /\ c_calls' = Append(c_calls, "RAGAgent")
            /\ UNCHANGED c_out
       \/ ChatFail("RAGAgent")
    /\ UNCHANGED <<xVars, vVars, oVars, rVars, qVars>>

\* tool_outputs["analytics"] = self.orchestrator.run(user_message)
ChatAnalytics ==
    /\ c.pc = "analytics"
    /\ \/ \E df \in Tables, raw \in InsightBodies :
            LET run == OrchestratorRun(EmptyCtx, df, raw)
            IN IF run.raised
               THEN ChatFail("OrchestratorAgent")
               ELSE /\ c' = [c EXCEPT !.pc = "compose",
                                      !.tool_outputs.analytics = Some(OrchOut(
                                          [OLocals("return") EXCEPT !.ctx = run.ctx,
                                                                    !.step3 = run]))]
                    /\ c_calls' = Append(c_calls, "OrchestratorAgent")
                    /\ UNCHANGED c_out
       \/ ChatFail("OrchestratorAgent")
    /\ UNCHANGED <<xVars, vVars, oVars, rVars, qVars>>

\* the dict _safe_payload_text serialises for the oracle: the keys tool_outputs
\* holds, under their sanitized values (the outputs of this model hold no
\* NaN, infinity, date or table, which _sanitize_for_json leaves as they are)
SafePayload(outs) ==
    [k \in { k \in DOMAIN outs : outs[k] # None } |-> outs[k][1]]

\* a turn that gives compose the output of the SQL tool only
mut_ChatCompose_sql_only ==
    /\ c.pc = "compose"
    /\ \/ /\ c' = [c EXCEPT !.pc = "update", !.final_answer = "final answer",
                             !.payload = Some(SafePayload([c.tool_outputs EXCEPT !.rag = None]))]
          /\ c_calls' = Append(c_calls, "compose")
          /\ UNCHANGED c_out
       \/ ChatFail("compose")
    /\ UNCHANGED <<xVars, vVars, oVars, rVars, qVars>>

\* a turn that records the intent in the state before it calls compose
mut_ChatCompose_writes_first ==
    /\ c.pc = "compose"
    /\ \/ c' = [c EXCEPT !.pc = "update", !.final_answer = "final answer",
                          !.payload = Some(SafePayload(c.tool_outputs)),
                          !.cur_state.last_intent = Some(c.route.intent)]
       \/ c' = [c EXCEPT !.pc = "failed", !.cur_state.last_intent = Some(c.route.intent)]
    /\ c_calls' = Append(c_calls, "compose")
    /\ UNCHANGED <<xVars, c_out, vVars, oVars, rVars, qVars>>

\* final_answer = self._compose_answer(user_message, tool_outputs, answer_lang)
ChatCompose ==
    /\ c.pc = "compose"
    /\ \/ /\ c' = [c EXCEPT !.pc = "update", !.final_answer = "final answer",
                             !.payload = Some(SafePayload(c.tool_outputs))]
          /\ c_calls' = Append(c_calls, "compose")
          /\ UNCHANGED c_out
       \/ ChatFail("compose")
    /\ UNCHANGED <<xVars, vVars, oVars, rVars, qVars>>

\* an update that stores every source of the retrieval tool
mut_Updated_all_sources(st, intent, outs) ==
    LET a == [st EXCEPT !.last_intent = Some(intent)]
        b == IF outs.sql # None
             THEN [a EXCEPT !.last_sql_columns = Some(outs.sql[1].result.columns),
                            !.last_sql_preview_rows = Some(_truncate(outs.sql[1].result.rows))]
             ELSE a
    IN IF outs.rag # None
       THEN [b EXCEPT !.last_rag_top_sources = Some(outs.rag[1].sources)]
       ELSE b

\* the state after the assignments of the update, from the state before
\* them, the intent and tool_outputs
Updated(st, intent, outs) ==
    LET a == [st EXCEPT !.last_intent = Some(intent)]
        b == IF outs.sql # None
             THEN [a EXCEPT !.last_sql_columns = Some(outs.sql[1].result.columns),
                            !.last_sql_preview_rows = Some(_truncate(outs.sql[1].result.rows))]
             ELSE a
    IN IF outs.rag # None
       THEN [b EXCEPT !.last_rag_top_sources = Some(Take(outs.rag[1].sources, 3))]
       ELSE b

\* the fields the update assigns
Assigned(outs) ==
    {"last_intent"}
    \cup (IF outs.sql # None THEN {"last_sql_columns", "last_sql_preview_rows"} ELSE {})
    \cup (IF outs.rag # None THEN {"last_rag_top_sources"} ELSE {})

\* an update that starts from a fresh state, clearing what this turn's tools
\* did not write
mut_ChatUpdateState_resets ==
    /\ c.pc = "update"
    /\ c' = [c EXCEPT !.pc = "return",
                      !.cur_state = Updated(ChatState(None, None, None, None, None),
                                            c.route.intent, c.tool_outputs),
                      !.written = Assigned(c.tool_outputs)]
    /\ UNCHANGED <<xVars, c_out, c_calls, vVars, oVars, rVars, qVars>>

\* an update that keeps the intent of the supplied state when there is one
mut_ChatUpdateState_keeps_intent ==
    /\ c.pc = "update"
    /\ c' = [c EXCEPT !.pc = "return",
                      !.cur_state = [Updated(c.cur_state, c.route.intent, c.tool_outputs)
                                        EXCEPT !.last_intent =
                                            IF c.cur_state.last_intent # None
                                            THEN c.cur_state.last_intent
                                            ELSE Some(c.route.intent)],
                      !.written = Assigned(c.tool_outputs)]
    /\ UNCHANGED <<xVars, c_out, c_calls, vVars, oVars, rVars, qVars>>

\* an update that is skipped when the turn runs with show_debug
mut_ChatUpdateState_debug_skips ==
    /\ c.pc = "update"
    /\ c' = IF c.show_debug
            THEN [c EXCEPT !.pc = "return"]
            ELSE [c EXCEPT !.pc = "return",
                           !.cur_state = Updated(c.cur_state, c.route.intent, c.tool_outputs),
                           !.written = Assigned(c.tool_outputs)]
    /\ UNCHANGED <<xVars, c_out, c_calls, vVars, oVars, rVars, qVars>>

\* cur_state.last_intent = intent; if isinstance(tool_outputs.get("sql"), dict): ...
\* if isinstance(tool_outputs.get("rag"), dict): ...
ChatUpdateState ==
    /\ c.pc = "update"
    /\ c' = [c EXCEPT !.pc = "return",
                      !.cur_state = Updated(c.cur_state, c.route.intent, c.tool_outputs),
                      !.written = Assigned(c.tool_outputs)]
    /\ UNCHANGED <<xVars, c_out, c_calls, vVars, oVars, rVars, qVars>>

\* out = {...}; if show_debug: out["debug"] = {...}; return out
ChatReturn ==
    /\ c.pc = "return"
    /\ c_out' = ChatOut(c, IF c.show_debug
                           THEN Some([intent |-> c.route.intent, reason |-> c.route.reason,
                                      used_tools |-> c.used_tools])
                           ELSE None)
    /\ c' = [c EXCEPT !.pc = "done"]
    /\ UNCHANGED <<xVars, c_calls, vVars, oVars, rVars, qVars>>

Init ==
    /\ CIdle /\ QIdle /\ VIdle /\ RIdle /\ OIdle /\ XIdle

Next ==
    \/ ChatStart(ChatStatesIn)
    \/ ChatRoute(ChatRouteTexts)
    \/ ChatDispatch
    \/ QGenerate(ChatSqlTexts)
    \/ QValidate
    \/ QExecute(ChatStoreOutputs)
    \/ QGenerateFallback(ChatSqlTexts)
    \/ QValidateFallback
    \/ QExecuteFallback(ChatStoreOutputs)
    \/ QSummarize
    \/ ChatSqlReturn
    \/ ChatSqlRaise
    \/ ChatRag(RagOutputs)
    \/ ChatAnalytics
    \/ ChatCompose
    \/ ChatUpdateState
    \/ ChatReturn

Spec == Init /\ [][Next]_vars

\* ---------------------------------------------------------------------
\* C1, C2, C9, C10
\* ---------------------------------------------------------------------
ToolNames == {"SQLAgent", "RAGAgent", "OrchestratorAgent"}

IsTool(x) == x \in ToolNames

\* the tools invoked so far in the turn, in the order of their calls
Invoked == SelectSeq(c_calls, IsTool)

\* the dispatch table
Expected(intent) ==
    CASE intent = I_sql       -> <<"SQLAgent">>
      [] intent = I_rag       -> <<"RAGAgent">>
      [] intent = I_analytics -> <<"OrchestratorAgent">>
      [] intent = I_hybrid    -> <<"SQLAgent", "RAGAgent">>
      [] OTHER                -> <<>>

IsPrefix(a, b) == Len(a) <= Len(b) /\ SubSeq(b, 1, Len(a)) = a

\* the router has returned its decision in this turn
Resolved == c.route # NoDecision

TurnDone == c.pc = "done"

\* C1: the tools chat invokes, and their order, are fixed by the resolved
\* intent alone: sql only the SQL tool, rag only the retrieval tool, analytics
\* only the analytics pipeline, hybrid the SQL tool and then the retrieval
\* tool whatever the SQL tool returned, general no tool and the no-op marker;
\* the returned used_tools is the ordered list of the tools invoked.
C1_DispatchByIntent ==
    Resolved =>
        /\ c.route.intent \in Intent
        /\ IsPrefix(Invoked, Expected(c.route.intent))
        /\ TurnDone =>
              /\ Invoked = Expected(c.route.intent)
              /\ c_out.used_tools = Invoked
              /\ (c.route.intent = I_general) <=> (c_out.tool_outputs.general = Some(NoToolNote))
              /\ (c.route.intent # I_general) <=> (c_out.tool_outputs.general = None)

\* a hybrid turn has returned after the SQL tool returned no row
C1_Witness ==
    /\ TurnDone /\ c.route.intent = I_hybrid
    /\ c_out.tool_outputs.sql[1].result.rows = <<>>
    /\ Invoked = <<"SQLAgent", "RAGAgent">>

\* the JSON object the loader takes from the text
ParsedObject(raw) ==
    IF IsJsonObject(StripFences(raw)) THEN JsonValue(StripFences(raw))
    ELSE JsonValue(BraceMatch(StripFences(raw)))

HasKey(obj, key) == \E i \in 1..Len(obj.items) : obj.items[i].key = key

\* the object's intent value is one of the five literals, as written
IntentIsLiteral(obj) ==
    /\ HasKey(obj, k_intent)
    /\ DictGet(obj, k_intent, PyNone).t = "str"
    /\ DictGet(obj, k_intent, PyNone).s \in Intent

\* the object's intent value is one of the five literals once it is converted
\* to text, trimmed and lower-cased
IntentIsLiteralNormalized(obj) ==
    /\ HasKey(obj, k_intent)
    /\ Lower(Strip(PyStrOf(DictGet(obj, k_intent, PyNone)))) \in Intent

\* the turn resolves to hybrid and dispatches the SQL tool and the retrieval tool
HybridBoth ==
    /\ c.route.intent = I_hybrid
    /\ c.pc # "dispatch" => c.used_tools = <<"SQLAgent", "RAGAgent">>
    /\ IsPrefix(Invoked, <<"SQLAgent", "RAGAgent">>)
    /\ c.pc \notin {"dispatch", "failed"} => Invoked # <<>>
    /\ TurnDone => Invoked = <<"SQLAgent", "RAGAgent">>

\* C2 (as stated): when the classifier's output parses to an object whose
\* intent value is not one of sql, rag, analytics, hybrid, general (or that
\* has no intent key), the router resolves the intent to hybrid and the turn
\* dispatches both the SQL tool and the retrieval tool.
C2_Original ==
    (Resolved /\ YieldsObject(c.cls) /\ ~IntentIsLiteral(ParsedObject(c.cls)))
        => HybridBoth

\* C2 (amended): when the classifier's output parses to an object whose
\* intent value, once converted to text, trimmed and lower-cased, is not one
\* of sql, rag, analytics, hybrid, general (or that has no intent key), the
\* router resolves the intent to hybrid and the turn dispatches both the SQL
\* tool and the retrieval tool.
C2_UnknownIntentHybrid ==
    (Resolved /\ YieldsObject(c.cls) /\ ~IntentIsLiteralNormalized(ParsedObject(c.cls)))
        => HybridBoth

\* a turn has returned after the classifier answered {"intent": "unknown_value"}
C2_Witness ==
    /\ TurnDone
    /\ c.cls = Obj(Member(k_intent, Tok("str", c_unknown)))
    /\ Invoked = <<"SQLAgent", "RAGAgent">>

\* the fields of the state the caller supplied, an absent field read as None
Supplied == ChatStateOf(c.state_in)

\* the state chat returned
ReturnedState == c_out.state.vals

Same(f) == ReturnedState[f] = Supplied[f]

\* C9: in every successful turn a state field owned by a tool that did not
\* run has the same value in the returned state as in the state the caller
\* supplied: a rag turn leaves last_sql, last_sql_columns and
\* last_sql_preview_rows unchanged, a sql turn leaves last_rag_top_sources
\* unchanged, analytics and general turns leave every field but last_intent
\* unchanged.
C9_Frame ==
    TurnDone =>
        /\ c.route.intent = I_rag =>
              Same("last_sql") /\ Same("last_sql_columns") /\ Same("last_sql_preview_rows")
        /\ c.route.intent = I_sql => Same("last_rag_top_sources")
        /\ c.route.intent \in {I_analytics, I_general} =>
              \A f \in StateFields \ {"last_intent"} : Same(f)

\* a rag turn has returned to a caller that supplied SQL fields
C9_Witness ==
    /\ TurnDone /\ c.route.intent = I_rag
    /\ Supplied["last_sql_columns"] # None
    /\ Supplied["last_sql_preview_rows"] # None
    /\ ReturnedState["last_rag_top_sources"] # Supplied["last_rag_top_sources"]

\* the SQL tool ran in this turn
SqlRan == \E i \in 1..Len(c_calls) : c_calls[i] = "SQLAgent"

\* C10: in every successful turn last_sql_columns and last_sql_preview_rows
\* are assigned if and only if the SQL tool ran in that turn (intent sql or
\* hybrid); when assigned, last_sql_columns is the columns of the SQL tool's
\* result and last_sql_preview_rows its first 5 rows, in order.
C10_SqlPreview ==
    TurnDone =>
        /\ SqlRan <=> c.route.intent \in {I_sql, I_hybrid}
        /\ ("last_sql_columns" \in c.written) <=> SqlRan
        /\ ("last_sql_preview_rows" \in c.written) <=> SqlRan
        /\ SqlRan =>
              LET res == q_out.result
              IN /\ c_out.tool_outputs.sql = Some(q_out)
                 /\ ReturnedState["last_sql_columns"] = Some(res.columns)
                 /\ ReturnedState["last_sql_preview_rows"] =
                       Some([i \in 1..(IF Len(res.rows) < 5 THEN Len(res.rows) ELSE 5) |-> res.rows[i]])
        /\ ~SqlRan =>
              /\ Same("last_sql_columns")
              /\ Same("last_sql_preview_rows")

\* a turn has returned after the SQL tool returned more than 5 rows
C10_Witness ==
    /\ TurnDone /\ SqlRan
    /\ Len(q_out.result.rows) > 5
    /\ Len(ReturnedState["last_sql_preview_rows"][1]) = 5

\* ---------------------------------------------------------------------
\* C11, C12, C13, C15, C17, C18
\* ---------------------------------------------------------------------
\* C11: after every successful turn in which the SQL tool ran, the returned
\* state's last_sql holds the text of the query that was executed to produce
\* the result (the SQL tool's sql_used).
C11_LastSqlIsExecuted ==
    (TurnDone /\ SqlRan) => ReturnedState["last_sql"] = Some(q_out.sql_used)

\* the retrieval tool ran in this turn
RagRan == \E i \in 1..Len(c_calls) : c_calls[i] = "RAGAgent"

\* C12: in every successful turn last_rag_top_sources is assigned if and only
\* if the retrieval tool ran in that turn (intent rag or hybrid); when
\* assigned it equals the first 3 entries of the retrieval tool's sources, in
\* order (empty when there are no sources).
C12_RagTopSources ==
    TurnDone =>
        /\ RagRan <=> c.route.intent \in {I_rag, I_hybrid}
        /\ ("last_rag_top_sources" \in c.written) <=> RagRan
        /\ RagRan =>
              LET src == c_out.tool_outputs.rag[1].sources
              IN ReturnedState["last_rag_top_sources"] =
                    Some([i \in 1..(IF Len(src) < 3 THEN Len(src) ELSE 3) |-> src[i]])
        /\ ~RagRan => Same("last_rag_top_sources")

\* a turn has returned after the retrieval tool returned more than 3 sources
C12_Witness ==
    /\ TurnDone /\ RagRan
    /\ Len(c_out.tool_outputs.rag[1].sources) > 3
    /\ Len(ReturnedState["last_rag_top_sources"][1]) = 3

\* C13: after every successful turn, whatever state the caller supplied, the
\* returned state's last_intent equals the intent the router resolved in that
\* turn and is one of sql, rag, analytics, hybrid, general.
C13_LastIntent ==
    TurnDone =>
        /\ ReturnedState["last_intent"] = Some(c.route.intent)
        /\ c.route.intent \in Intent

\* a turn has returned to a caller whose state held another intent
C13_Witness ==
    /\ TurnDone
    /\ Supplied["last_intent"] # None
    /\ Supplied["last_intent"] # Some(c.route.intent)

\* the positions of a turn up to the return of compose
BeforeUpdate == {"route", "dispatch", "sql", "rag", "analytics", "compose"}

\* the positions of a turn in progress
InTurn == BeforeUpdate \cup {"update", "return"}

\* C15: within a turn no field of the conversational state is modified before
\* compose has returned; if routing, a dispatched tool or compose raises, the
\* turn returns no new state, and the state the caller holds from prior turns
\* is left as it was.
C15_StateAfterCompose ==
    /\ [](/\ c.pc \in BeforeUpdate =>
                /\ c.cur_state = ChatStateOf(c.state_in)
                /\ c.written = {}
                /\ c_out = NoChatOut
          /\ c.pc = "failed" =>
                /\ c.cur_state = ChatStateOf(c.state_in) \/ ChatStateRaises(c.state_in)
                /\ c.written = {}
                /\ c_out = NoChatOut)
    /\ [][c.pc \in InTurn => c'.state_in = c.state_in]_vars

\* compose has raised in a turn whose SQL tool returned rows, for a caller
\* that holds a state from a prior turn
C15_Witness ==
    /\ c.pc = "failed"
    /\ c_calls # <<>> /\ c_calls[Len(c_calls)] = "compose"
    /\ c.tool_outputs.sql # None /\ c.tool_outputs.sql[1].result.rows # <<>>
    /\ c.state_in.kind = "dict" /\ c.state_in.keys = StateFields

\* the state argument is missing or malformed
Malformed(arg) == arg.kind # "dict" \/ arg \in MalformedStates

\* C17: at the start of a turn the working state is constructed fresh, all
\* five fields absent, when the caller supplies no state and also when the
\* supplied state is malformed (not a mapping, a key that is not a state
\* field, a value of the wrong shape); a malformed state never makes the turn
\* fail.
C17_MalformedStartsFresh ==
    (c.pc # "idle" /\ Malformed(c.state_in)) =>
        /\ ~(c.pc = "failed" /\ c_calls = <<>>)
        /\ c.pc = "route" => c.cur_state = ChatState(None, None, None, None, None)

\* compose has been called in this turn
ComposeCalled == \E i \in 1..Len(c_calls) : c_calls[i] = "compose"

\* C18: in a hybrid turn the SQL tool call completes before the retrieval
\* tool call starts, and both have completed before compose is called;
\* compose is never called with only one of the two results, and when one of
\* the two tools fails the turn fails: no answer is returned without the
\* other's result.
C18_HybridBothBeforeCompose ==
    (Resolved /\ c.route.intent = I_hybrid) =>
        /\ (c.pc = "rag" \/ RagRan) =>
              /\ q.pc = "returned"
              /\ c.tool_outputs.sql = Some(q_out)
        /\ (c.pc = "compose" \/ ComposeCalled) =>
              /\ c.tool_outputs.sql = Some(q_out)
              /\ c.tool_outputs.rag # None
              /\ RagRan
        /\ (q.pc = "raised" /\ c.pc # "sql") => (c.pc = "failed" /\ ~RagRan /\ ~ComposeCalled)
        /\ c.pc = "failed" => c_out = NoChatOut
        /\ TurnDone =>
              /\ c_out.tool_outputs.sql = Some(q_out)
              /\ c_out.tool_outputs.rag = c.tool_outputs.rag

\* a hybrid turn has returned with both results
C18_Witness ==
    /\ TurnDone /\ c.route.intent = I_hybrid
    /\ q.pc = "returned"
    /\ c_out.tool_outputs.sql = Some(q_out)
    /\ c_out.tool_outputs.rag # None
    /\ c_calls = <<"classify", "SQLAgent", "RAGAgent", "compose">>

\* ---------------------------------------------------------------------
\* A conversation: each turn is given the state the caller holds
\* ---------------------------------------------------------------------
\* the state the caller holds: empty before the first turn, the state of the
\* last turn that returned afterwards (a failed turn returns none, so the
\* caller still holds the state it sent)
Held ==
    IF c.pc = "done" THEN c_out.state
    ELSE IF c.pc = "failed" THEN c.state_in
    ELSE StateDict({}, ChatState(None, None, None, None, None))

\* the state with only the fields of `keep` left in it
Stripped(st, keep) ==
    StateDict(st.keys \cap keep,
              [f \in StateFields |-> IF f \in st.keys \cap keep THEN st.vals[f] ELSE None])

\* what the caller may send: the state it holds, whole or with fields removed
SessionStates == { Stripped(Held, keep) : keep \in SUBSET StateFields }

\* the texts the classifier oracle returns in a conversation
SessionRouteTexts ==
    { Obj(Member(k_intent, Tok("str", i))) : i \in Intent } \cup { <<LBrace, t_word, RBrace>> }

\* the text the oracle writes when a turn of a conversation asks for SQL
SessionSqlTexts == { s_select_x \o <<";">> }

\* what the store returns in a conversation
SessionStoreOutputs == { Result(<<"a">>, <<>>), Result(<<"a", "b">>, <<1, 2, 3, 4, 5, 6>>) }

\* what the retrieval tool returns in a conversation: no source, or top_k
SessionRagOutputs == { out \in RagOutputs : Len(out.sources) \in {0, top_k} }

InitSession ==
    /\ CIdle /\ QIdle /\ VIdle /\ RIdle /\ OIdle /\ XIdle

NextSession ==
    \/ ChatStart(SessionStates)
    \/ ChatRoute(SessionRouteTexts)
    \/ ChatDispatch
    \/ QGenerate(SessionSqlTexts)
    \/ QValidate
    \/ QExecute(SessionStoreOutputs)
    \/ QGenerateFallback(SessionSqlTexts)
    \/ QValidateFallback
    \/ QExecuteFallback(SessionStoreOutputs)
    \/ QSummarize
    \/ ChatSqlReturn
    \/ ChatSqlRaise
    \/ ChatRag(SessionRagOutputs)
    \/ ChatAnalytics
    \/ ChatCompose
    \/ ChatUpdateState
    \/ ChatReturn

SpecSession == InitSession /\ [][NextSession]_vars

\* ---------------------------------------------------------------------
\* C14, C16
\* ---------------------------------------------------------------------
\* C14: in a conversation that starts from an empty state and feeds each
\* returned state into the next turn, every returned state has
\* last_sql_preview_rows absent or of length at most 5 and
\* last_rag_top_sources absent or of length at most 3.
C14_BoundedState ==
    TurnDone =>
        /\ \/ ReturnedState["last_sql_preview_rows"] = None
           \/ Len(ReturnedState["last_sql_preview_rows"][1]) <= 5
        /\ \/ ReturnedState["last_rag_top_sources"] = None
           \/ Len(ReturnedState["last_rag_top_sources"][1]) <= 3

\* a turn that was given the whole state of an earlier turn, rows and sources
\* in it, has returned 5 rows and 3 sources
C14_Witness ==
    /\ TurnDone
    /\ c.state_in.keys = StateFields
    /\ c.state_in.vals["last_sql_preview_rows"] # None
    /\ c.state_in.vals["last_rag_top_sources"] # None
    /\ Len(ReturnedState["last_sql_preview_rows"][1]) = 5
    /\ Len(ReturnedState["last_rag_top_sources"][1]) = 3

\* C16: a state returned by a turn can be fed into the next turn, unmodified
\* or with any subset of its five fields removed, without the construction
\* of the working state or the router failing on it: the removed fields are
\* absent in the working state, the others are kept, and the router fails
\* only when the classifier oracle raises or returns a text the router
\* raises on.
C16_RoundTrip ==
    c.pc # "idle" =>
        /\ ~ChatStateRaises(c.state_in)
        /\ ~(c.pc = "failed" /\ c_calls = <<>>)
        /\ c.pc \in BeforeUpdate =>
              \A f \in StateFields :
                  c.cur_state[f] = IF f \in c.state_in.keys THEN c.state_in.vals[f] ELSE None
        /\ (c.pc = "failed" /\ c_calls = <<"classify">>) =>
              (c.cls = <<>> \/ _route_intent(c.cls).raised)

\* the router has returned in a turn that was given a returned state with
\* last_intent removed and the sources kept
C16_Witness ==
    /\ c.pc = "dispatch"
    /\ "last_intent" \notin c.state_in.keys
    /\ "last_rag_top_sources" \in c.state_in.keys
    /\ c.cur_state["last_rag_top_sources"] # None
    /\ Len(c.cur_state["last_rag_top_sources"][1]) = 3
    /\ c.cur_state["last_intent"] = None

\* ---------------------------------------------------------------------
\* C19, C20
\* ---------------------------------------------------------------------
\* C19: in every run of OrchestratorAgent.run, which executes load/merge,
\* then statistics, then insight synthesis, the statistics stage finds the
\* output of the load/merge stage in the shared context: it does not raise
\* "orders_merged not found in context".
C19_Stage2FindsStage1 ==
    orch.pc = "eda" => ~EDAAgentRun(orch.ctx).raised

\* the titles of the insights the oracle wrote
OracleTitles(raw) ==
    IF \E i \in 1..Len(raw) : raw[i].k = "arr"
    THEN raw[CHOOSE i \in 1..Len(raw) : raw[i].k = "arr"].v
    ELSE <<>>

\* the insights of the artifact InsightAgent.run returned
ArtifactInsights == DictGet(orch.step3.val, k_insights, PyNone)

InsightRan ==
    \/ orch.pc \in {"return", "returned"}
    \/ orch.pc = "raised" /\ orch.raw # <<>>

\* C21: for every oracle text that does not parse as the expected JSON
\* object (prose, braces that are not valid JSON, a JSON value that is not an
\* object), InsightAgent.run does not raise: it falls back to the skeleton
\* with no insights and returns an artifact of 5 placeholder insights.
C21_UnparsableFallsBack ==
    (InsightRan /\ ~YieldsObject(orch.raw)) =>
        /\ orch.pc # "raised"
        /\ ArtifactInsights = PyList([i \in 1..5 |-> Placeholder])

\* ---------------------------------------------------------------------
\* C22, C23
\* ---------------------------------------------------------------------
\* the executions of the log that returned
Executions == { i \in 1..Len(q_log) : q_log[i].op = "execute" /\ q_log[i].verdict = "ok" }

\* C22: every result of an SQL execution has at most top_n rows, so the
\* result SQLAgent.query returns has at most top_n rows whether it comes from
\* the initial or the fallback query; the rows kept are the first top_n rows
\* of the store's output, in order.
C22_AtMostTopN ==
    /\ \A i \in Executions :
          /\ Len(q_log[i].result.rows) <= top_n
          /\ \E raw \in StoreOutputs :
                /\ q_log[i].result.columns = raw.columns
                /\ q_log[i].result.rows = Take(raw.rows, top_n)
    /\ q.pc = "returned" =>
          /\ Len(q_out.result.rows) <= top_n
          /\ \E i \in Executions : q_out.result = q_log[i].result

\* query has returned the result of the fallback, cut to top_n rows
C22_Witness ==
    /\ q.pc = "returned"
    /\ q_out.used_fallback
    /\ Len(q_out.result.rows) = top_n

\* the connections open after the first n events of a log
OpenAt(log, n) ==
    { id \in 1..Len(log) :
        /\ \E i \in 1..n : log[i] = ConnEvent("open", id)
        /\ ~\E i \in 1..n : log[i] = ConnEvent("close", id) }

\* C23: every SQL execution opens its own connection and closes it before
\* _run_sql returns or raises: after SQLAgent.query returns or raises, for any
\* combination of success, empty result, fallback and execution error, no
\* connection remains open, and at most one connection is open at any time.
C23_ScopedConnections ==
    /\ \A n \in 0..Len(q_conn) : Cardinality(OpenAt(q_conn, n)) <= 1
    /\ OpenAt(q_conn, Len(q_conn)) = {}
    /\ \A i, j \in 1..Len(q_conn) :
          (q_conn[i].ev = "open" /\ q_conn[i] = q_conn[j]) => i = j
    /\ Opened(q_conn) >= Cardinality(Executions)
                         + (IF q.pc \in {"new", "no_agent"} THEN 0 ELSE 1)

\* query raised in the execution of the fallback, after the connection was
\* opened: the third connection of the agent
C23_Witness ==
    /\ q.pc = "raised"
    /\ q_log[Len(q_log)].op = "execute"
    /\ q_log[Len(q_log)].sql = q.sql_2
    /\ Opened(q_conn) = 3

\* ---------------------------------------------------------------------
\* RAGAgent: search and answer
\* ---------------------------------------------------------------------
PyNum(chars) == PyVal("num", chars, <<>>)
PyDict(members) == PyVal("dict", <<>>, members)
Entry(k, v) == [key |-> k, val |-> v]

\* a float that is not a number: what read_csv gives for an empty cell
NaN == PyNum(<<"nan">>)

k_doc_text == <<"doc_text">>
k_product_id == <<"product_id">>
k_category == <<"product_category_en">>
k_seller_id == <<"seller_id">>
k_city == <<"seller_city">>
k_rating == <<"avg_review_score">>

\* x or y
Or(x, y) == IF Truthy(x) THEN x ELSE y

\* one row of rag_products.csv
Row(text, pid, cat, sid, city, rating) ==
    PyDict(<< Entry(k_doc_text, text), Entry(k_product_id, pid), Entry(k_category, cat),
              Entry(k_seller_id, sid), Entry(k_city, city), Entry(k_rating, rating) >>)

\* self._df: the rows of rag_products.csv, indexed by doc_id
SideTable ==
    [id \in { <<"p1">>, <<"7">> } |->
        IF id = <<"p1">>
        THEN Row(PyStr(<<"text of p1">>), PyStr(<<"a1">>), PyStr(<<"toys">>),
                 PyStr(<<"s1">>), PyStr(<<"sao paulo">>), PyNum(<<"4.5">>))
        ELSE Row(PyStr(<<"text of 7">>), PyStr(<<"a7">>), NaN, PyStr(<<"s7">>), NaN, NaN)]

\* one point the nearest-neighbour backend returns
Hit(id, payload, score) == [id |-> id, payload |-> payload, score |-> score]

\* Document(id, text, metadata)
Document(id, text, metadata) == [id |-> id, text |-> text, metadata |-> metadata]

\* a search that gives a hit without a row an empty metadata
mut_DocOf_drops_payload(h) ==
    LET doc_id == PyStrOf(h.id)
    IN IF doc_id \notin DOMAIN SideTable
       THEN Document(doc_id, PyStr(<<>>), PyDict(<<>>))
       ELSE LET row == SideTable[doc_id]
            IN Document(doc_id, DictGet(row, k_doc_text, PyStr(<<>>)),
                        PyDict(<< Entry(k_product_id, DictGet(row, k_product_id, PyStr(<<>>))),
                                  Entry(k_category, DictGet(row, k_category, PyStr(<<>>))),
                                  Entry(k_seller_id, DictGet(row, k_seller_id, PyStr(<<>>))),
                                  Entry(k_city, DictGet(row, k_city, PyStr(<<>>))),
                                  Entry(k_rating, Or(DictGet(row, k_rating, PyNum(<<"0">>)),
                                                     PyNum(<<"0">>))),
                                  Entry(<<"score">>, h.score) >>))

\* the body of the loop of RAGAgent.search: doc_id = str(h.id);
\* if doc_id not in self._df.index: metadata = h.payload or {};
\* text = metadata.get("doc_text", "") else: row = self._df.loc[doc_id]; ...
DocOf(h) ==
    LET doc_id == PyStrOf(h.id)
    IN IF doc_id \notin DOMAIN SideTable
       THEN LET metadata == Or(h.payload, PyDict(<<>>))
            IN Document(doc_id, DictGet(metadata, k_doc_text, PyStr(<<>>)), metadata)
       ELSE LET row == SideTable[doc_id]
            IN Document(doc_id, DictGet(row, k_doc_text, PyStr(<<>>)),
                        PyDict(<< Entry(k_product_id, DictGet(row, k_product_id, PyStr(<<>>))),
                                  Entry(k_category, DictGet(row, k_category, PyStr(<<>>))),
                                  Entry(k_seller_id, DictGet(row, k_seller_id, PyStr(<<>>))),
                                  Entry(k_city, DictGet(row, k_city, PyStr(<<>>))),
                                  Entry(k_rating, Or(DictGet(row, k_rating, PyNum(<<"0">>)),
                                                     PyNum(<<"0">>))),
                                  Entry(<<"score">>, h.score) >>))

\* f"{category} product (seller in {city})"
Label(category, city) ==
    PyStrOf(category) \o <<" product (seller in ">> \o PyStrOf(city) \o <<")">>

\* one line of the context RAGAgent.answer gives the oracle, as its parts:
\* f"{i}. label={product_label} | product_id={...} | avg_review_score={rating}"
ContextLine(i, d) ==
    LET m == Or(d.metadata, PyDict(<<>>))
        category == Or(DictGet(m, k_category, PyStr(<<>>)), PyStr(<<"Unknown category">>))
        city == Or(DictGet(m, k_city, PyStr(<<>>)), PyStr(<<"Unknown city">>))
    IN [i |-> i, label |-> Label(category, city),
        product_id |-> PyStrOf(DictGet(m, k_product_id, PyStr(<<>>))),
        rating |-> PyStrOf(DictGet(m, k_rating, PyNum(<<"0">>)))]

\* one entry of sources: m = dict(d.metadata or {}); m["doc_id"] = d.id;
\* m["product_label"] = f"{m.get('product_category_en','')} product (seller in ...)"
SourceOf(d) ==
    LET m == DictSet(Or(d.metadata, PyDict(<<>>)), <<"doc_id">>, PyStr(d.id))
    IN DictSet(m, <<"product_label">>,
               PyStr(Label(DictGet(m, k_category, PyStr(<<>>)),
                           DictGet(m, k_city, PyStr(<<>>)))))

\* the points of the collection: two with a row in the side table (one under
\* an integer id), four without (a full payload, no payload, a payload with
\* an empty category and no city, a payload with a null category)
HitPool ==
    { Hit(PyStr(<<"p1">>), PyDict(<< Entry(k_doc_text, PyStr(<<"payload text">>)) >>),
          PyNum(<<"0.9">>)),
      Hit(PyNum(<<"7">>), PyNone, PyNum(<<"0.8">>)),
      Hit(PyStr(<<"x1">>),
          PyDict(<< Entry(k_doc_text, PyStr(<<"text of x1">>)),
                    Entry(k_category, PyStr(<<"garden">>)),
                    Entry(k_city, PyStr(<<"rio">>)),
                    Entry(k_product_id, PyStr(<<"b1">>)) >>),
          PyNum(<<"0.7">>)),
      Hit(PyStr(<<"x2">>), PyNone, PyNum(<<"0.6">>)),
      Hit(PyNum(<<"3">>),
          PyDict(<< Entry(k_category, PyStr(<<>>)), Entry(k_product_id, PyStr(<<"b3">>)) >>),
          PyNum(<<"0.5">>)),
      Hit(PyStr(<<"x4">>),
          PyDict(<< Entry(k_doc_text, PyStr(<<"text of x4">>)), Entry(k_category, PyNone),
                    Entry(k_city, PyStr(<<"recife">>)) >>),
          PyNum(<<"0.4">>)) }

\* what query_points(limit=self.top_k) returns: at most top_k distinct points,
\* in the backend's order
HitLists ==
    { hs \in UNION { [1..n -> HitPool] : n \in 0..top_k } :
        \A i, j \in 1..Len(hs) : hs[i] = hs[j] => i = j }

\* an exception leaves RAGAgent.answer
RagRaise ==
    rag' = [rag EXCEPT !.pc = "raised"]

\* answer(query): docs = self.search(query) begins
RagStart ==
    /\ rag.pc \in {"idle", "returned", "raised"}
    /\ rag' = RagLocals("embed")
    /\ UNCHANGED <<yVars, api, twin, san, vVars, rVars, qVars, cVars, oVars>>

\* [vec] = self._embed([query])
RagEmbed ==
    /\ rag.pc = "embed"
    /\ \/ rag' = [rag EXCEPT !.pc = "query"]
       \/ RagRaise
    /\ UNCHANGED <<yVars, api, twin, san, vVars, rVars, qVars, cVars, oVars>>

\* resp = self.qdrant.query_points(..., limit=self.top_k, ...); hits = resp.points
RagQuery(hitlists) ==
    /\ rag.pc = "query"
    /\ \/ \E hs \in hitlists : rag' = [rag EXCEPT !.pc = "loop", !.hits = hs]
       \/ RagRaise
    /\ UNCHANGED <<yVars, api, twin, san, vVars, rVars, qVars, cVars, oVars>>

\* a search that puts each document in front of the ones before it
mut_RagHit_prepends ==
    /\ rag.pc = "loop"
    /\ Len(rag.docs) < Len(rag.hits)
    /\ rag' = [rag EXCEPT !.docs = <<DocOf(rag.hits[Len(rag.docs) + 1])>> \o @]
    /\ UNCHANGED <<yVars, api, twin, san, vVars, rVars, qVars, cVars, oVars>>

\* for h in hits: ...; docs.append(Document(id=doc_id, text=text, metadata=metadata))
RagHit ==
    /\ rag.pc = "loop"
    /\ Len(rag.docs) < Len(rag.hits)
    /\ rag' = [rag EXCEPT !.docs = Append(@, DocOf(rag.hits[Len(rag.docs) + 1]))]
    /\ UNCHANGED <<yVars, api, twin, san, vVars, rVars, qVars, cVars, oVars>>

\* return docs: search returns to answer, which builds context_lines
RagContext ==
    /\ rag.pc = "loop"
    /\ Len(rag.docs) = Len(rag.hits)
    /\ rag' = [rag EXCEPT !.pc = "oracle",
                          !.context_lines = [i \in 1..Len(rag.docs) |->
                                                ContextLine(i, rag.docs[i])]]
    /\ UNCHANGED <<yVars, api, twin, san, vVars, rVars, qVars, cVars, oVars>>

\* answer_text = chat_completion(...); sources = [...];
\* return {"answer": answer_text, "sources": sources}
RagAnswer ==
    /\ rag.pc = "oracle"
    /\ \/ rag' = [rag EXCEPT !.pc = "returned",
                             !.out = Some([answer |-> "answer",
                                           sources |-> [i \in 1..Len(rag.docs) |->
                                                           SourceOf(rag.docs[i])]])]
       \/ RagRaise
    /\ UNCHANGED <<yVars, api, twin, san, vVars, rVars, qVars, cVars, oVars>>

InitRag ==
    /\ VIdle /\ RIdle /\ QIdle /\ CIdle /\ OIdle /\ XIdle

NextRag ==
    \/ RagStart
    \/ RagEmbed
    \/ RagQuery(HitLists)
    \/ RagHit
    \/ RagContext
    \/ RagAnswer

SpecRag == InitRag /\ [][NextRag]_vars

\* ---------------------------------------------------------------------
\* C24, C25, C26
\* ---------------------------------------------------------------------
\* search has returned its documents to answer
SearchReturned == rag.pc \in {"oracle", "returned"}

\* C24: RAGAgent.search returns at most top_k documents, one per hit the
\* backend returned, in the order the backend returned them: it never
\* re-sorts, drops or duplicates a hit.
C24_SearchKeepsHits ==
    /\ rag.pc = "loop" =>
          /\ Len(rag.docs) <= Len(rag.hits)
          /\ \A i \in 1..Len(rag.docs) : rag.docs[i].id = PyStrOf(rag.hits[i].id)
    /\ SearchReturned =>
          /\ Len(rag.docs) <= top_k
          /\ Len(rag.docs) = Len(rag.hits)
          /\ \A i \in 1..Len(rag.docs) : rag.docs[i].id = PyStrOf(rag.hits[i].id)

\* search has returned top_k documents for hits the backend did not return in
\* the order of their ids
C24_Witness ==
    /\ SearchReturned
    /\ Len(rag.docs) = top_k
    /\ rag.docs[1].id = <<"x4">>
    /\ rag.docs[top_k].id = <<"7">>

\* the i-th hit has no row in the side table
Absent(i) == PyStrOf(rag.hits[i].id) \notin DOMAIN SideTable

\* C25: a hit whose id is absent from the side table raises no error (answer
\* raises only before the first hit or after the last) and gives a document whose metadata is the hit's payload (empty when the hit
\* has none) and whose text is the payload's text field, or the empty string
\* when that field is absent; a hit whose id is present takes its metadata
\* from the side table.
C25_AbsentIdFallsBack ==
    /\ (rag.pc = "raised" => Len(rag.docs) = Len(rag.hits))
    /\ \A i \in 1..Len(rag.docs) :
          LET h == rag.hits[i]
              d == rag.docs[i]
          IN IF Absent(i)
             THEN /\ d.metadata = (IF h.payload = PyNone THEN PyDict(<<>>) ELSE h.payload)
                  /\ d.text = (IF h.payload # PyNone
                                  /\ \E j \in 1..Len(h.payload.items) :
                                        h.payload.items[j].key = k_doc_text
                               THEN DictGet(h.payload, k_doc_text, PyNone)
                               ELSE PyStr(<<>>))
             ELSE /\ \A k \in {k_product_id, k_category, k_seller_id, k_city} :
                        DictGet(d.metadata, k, PyNone) = DictGet(SideTable[d.id], k, PyNone)
                  /\ d.text = DictGet(SideTable[d.id], k_doc_text, PyNone)

\* search has returned a document for a hit with no row and no payload, and
\* one for a hit with a row
C25_Witness ==
    /\ SearchReturned
    /\ \E i \in 1..Len(rag.docs) :
          Absent(i) /\ rag.hits[i].payload = PyNone /\ rag.docs[i].metadata = PyDict(<<>>)
    /\ \E i \in 1..Len(rag.docs) :
          ~Absent(i) /\ rag.hits[i].payload = PyNone /\ rag.docs[i].metadata # PyDict(<<>>)

\* C26: in every result of RAGAgent.answer, sources holds the metadata of the
\* documents listed in the context given to the oracle, in the same order;
\* each source carries the label used for that document in the context,
\* including when the category or the seller city is missing or empty; and
\* there are at most top_k sources.
C26_SourcesMatchContext ==
    rag.pc = "returned" =>
        LET sources == rag.out[1].sources
        IN /\ Len(sources) = Len(rag.context_lines)
           /\ Len(sources) <= top_k
           /\ \A i \in 1..Len(sources) :
                 /\ DictGet(sources[i], <<"doc_id">>, PyNone) = PyStr(rag.docs[i].id)
                 /\ \A j \in 1..Len(rag.docs[i].metadata.items) :
                       LET e == rag.docs[i].metadata.items[j]
                       IN DictGet(sources[i], e.key, PyNone) = e.val
                 /\ DictGet(sources[i], <<"product_label">>, PyNone)
                       = PyStr(rag.context_lines[i].label)

\* ---------------------------------------------------------------------
\* The /chat endpoint
\* ---------------------------------------------------------------------
\* the states a request carries: ChatRequest.state is a Dict[str, Any] that
\* defaults to {}
ApiStates == { st \in ChatStatesIn : st.kind = "dict" }

\* chat(req): a request arrives
ApiReceive(states) ==
    /\ api.pc \in {"idle", "responded"}
    /\ \E st \in states, dbg \in BOOLEAN :
          api' = [ApiLocals("agent") EXCEPT !.req = ChatRequest(st, dbg)]
    /\ c' = CLocals("idle") /\ c_out' = NoChatOut /\ c_calls' = <<>>
    /\ q' = QLocals("idle") /\ q_out' = NoQueryOut /\ q_log' = <<>> /\ q_conn' = <<>>
    /\ UNCHANGED <<yVars, rag, twin, san, vVars, rVars, oVars>>

\* agent = get_agent(): the agent is built on first use, and ChatAgent() can
\* raise
ApiGetAgent ==
    /\ api.pc = "agent"
    /\ \/ api' = [api EXCEPT !.pc = "chat"]
       \/ api' = [api EXCEPT !.pc = "except"]
    /\ UNCHANGED <<yVars, rag, twin, san, vVars, rVars, qVars, cVars, oVars>>

\* out = agent.chat(..., state=req.state, show_debug=req.show_debug) begins
ApiChat ==
    /\ api.pc = "chat"
    /\ c.pc = "idle"
    /\ ChatStart({api.req.state})
    /\ c'.show_debug = api.req.show_debug

\* an endpoint that leaves the routing decision out of the response
mut_ApiRespond_no_debug ==
    /\ api.pc = "chat"
    /\ c.pc = "done"
    /\ \/ api' = [api EXCEPT
                    !.pc = "responded",
                    !.resp = Some(Success(c_out.final_answer, c_out.used_tools, c_out.state,
                                          IF api.req.show_debug
                                          THEN Some(c_out.tool_outputs) ELSE None,
                                          IF api.req.show_debug THEN Some(None) ELSE None))]
       \/ api' = [api EXCEPT !.pc = "except"]
    /\ UNCHANGED <<yVars, rag, twin, san, vVars, rVars, qVars, cVars, oVars>>

\* resp = {"final_answer": ..., "used_tools": ..., "state": ...};
\* if req.show_debug: resp["tool_outputs"] = out.get("tool_outputs");
\* resp["debug"] = out.get("debug") or {}; return sanitize(resp)
\* (debug holds None for the empty dict; the values a response of this model
\* carries hold no null, NaN or infinity, and sanitize returns such a dict with
\* equal members; building or sanitizing the response can raise)
ApiRespond ==
    /\ api.pc = "chat"
    /\ c.pc = "done"
    /\ \/ api' = [api EXCEPT
                    !.pc = "responded",
                    !.resp = Some(Success(c_out.final_answer, c_out.used_tools, c_out.state,
                                          IF api.req.show_debug
                                          THEN Some(c_out.tool_outputs) ELSE None,
                                          IF api.req.show_debug
                                          THEN Some(c_out.debug) ELSE None))]
       \/ api' = [api EXCEPT !.pc = "except"]
    /\ UNCHANGED <<yVars, rag, twin, san, vVars, rVars, qVars, cVars, oVars>>

\* agent.chat raised: control passes to the except clause
ApiChatRaised ==
    /\ api.pc = "chat"
    /\ c.pc = "failed"
    /\ api' = [api EXCEPT !.pc = "except"]
    /\ UNCHANGED <<yVars, rag, twin, san, vVars, rVars, qVars, cVars, oVars>>

\* except Exception as e: tb = traceback.format_exc();
\* raise HTTPException(status_code=500, detail=f"{e}\n\n{tb}")
ApiExcept ==
    /\ api.pc = "except"
    /\ api' = [api EXCEPT !.pc = "responded", !.resp = Some(Failure(TRUE, TRUE))]
    /\ UNCHANGED <<yVars, rag, twin, san, vVars, rVars, qVars, cVars, oVars>>

InitApi ==
    /\ VIdle /\ RIdle /\ QIdle /\ CIdle /\ OIdle /\ XIdle

NextApi ==
    \/ ApiReceive(ApiStates)
    \/ ApiGetAgent
    \/ ApiChat
    \/ ChatRoute(ChatRouteTexts)
    \/ ChatDispatch
    \/ QGenerate(ChatSqlTexts)
    \/ QValidate
    \/ QExecute(ChatStoreOutputs)
    \/ QGenerateFallback(ChatSqlTexts)
    \/ QValidateFallback
    \/ QExecuteFallback(ChatStoreOutputs)
    \/ QSummarize
    \/ ChatSqlReturn
    \/ ChatSqlRaise
    \/ ChatRag(RagOutputs)
    \/ ChatAnalytics
    \/ ChatCompose
    \/ ChatUpdateState
    \/ ChatReturn
    \/ ApiRespond
    \/ ApiChatRaised
    \/ ApiExcept

SpecApi == InitApi /\ [][NextApi]_vars

\* ---------------------------------------------------------------------
\* C27, C29
\* ---------------------------------------------------------------------
\* the endpoint has answered the request
Responded == api.pc = "responded"

\* C27: a successful turn response always contains final_answer, used_tools
\* and state; it contains tool_outputs and debug if and only if the request
\* set show_debug, and debug then holds the resolved intent, the routing
\* reason and used_tools of that turn.
C27_ResponseFields ==
    (Responded /\ api.resp[1].status = 200) =>
        LET r == api.resp[1]
        IN /\ c.pc = "done"
           /\ r.final_answer = c.final_answer
           /\ r.used_tools = c.used_tools
           /\ r.state = asdict(c.cur_state)
           /\ (r.tool_outputs # None) <=> api.req.show_debug
           /\ (r.debug # None) <=> api.req.show_debug
           /\ api.req.show_debug =>
                 /\ r.tool_outputs = Some(c.tool_outputs)
                 /\ r.debug = Some(Some([intent |-> c.route.intent,
                                         reason |-> c.route.reason,
                                         used_tools |-> c.used_tools]))

\* a hybrid turn with show_debug set has been answered
C27_Witness ==
    /\ Responded
    /\ api.resp[1].status = 200
    /\ api.req.show_debug
    /\ api.resp[1].used_tools = <<"SQLAgent", "RAGAgent">>
    /\ api.resp[1].debug[1][1].intent = I_hybrid

\* C29: every exception raised while serving a turn (agent construction,
\* routing, a tool, compose, response sanitizing) is reported as exactly one
\* failure response and never as a success; the failure carries the error
\* message, and the stack trace when show_debug is set and not otherwise.
C29_FailureReported ==
    Responded =>
        /\ (c.pc # "done" => api.resp[1].status = 500)
        /\ api.resp[1].status = 500 =>
              /\ api.resp[1].detail[1].message
              /\ api.resp[1].detail[1].traceback <=> api.req.show_debug

\* ---------------------------------------------------------------------
\* A turn served twice: the second request differs in show_debug only and
\* the oracle and the tools answer it as they answered the first
\* ---------------------------------------------------------------------
Replaying == twin # None

\* the first turn, as it stood when its response was sent
First == twin[1]

\* what the classifier oracle, the SQL oracle, the store and the retrieval
\* tool answer: anything in the first turn, the first turn's answers in the
\* second
ReplayRouteTexts == IF Replaying THEN { First.c.cls } ELSE ChatRouteTexts

ReplaySqlTexts ==
    IF Replaying
    THEN { t \in ChatSqlTexts : _normalize_sql(CleanSql(t)) = First.q.sql_1 }
    ELSE ChatSqlTexts

ReplayFallbackTexts ==
    IF Replaying
    THEN { t \in ChatSqlTexts : _normalize_sql(CleanSql(t)) = First.q.sql_2 }
    ELSE ChatSqlTexts

ReplayStoreOutputs ==
    IF Replaying
    THEN { raw \in ChatStoreOutputs : _run_sql(raw) = First.q.result_1 }
    ELSE ChatStoreOutputs

ReplayFallbackOutputs ==
    IF Replaying
    THEN { raw \in ChatStoreOutputs : _run_sql(raw) = First.q.result_used }
    ELSE ChatStoreOutputs

ReplayRagOutputs ==
    IF Replaying
    THEN { out \in RagOutputs : Some(out) = First.c.tool_outputs.rag }
    ELSE RagOutputs

\* the first request arrives
FirstReceive ==
    /\ ~Replaying
    /\ ApiReceive(ApiStates)

\* the second request arrives: the same state, the other show_debug
ReplayReceive ==
    /\ ~Replaying
    /\ api.pc = "responded"
    /\ api.resp[1].status = 200
    /\ twin' = Some([c |-> c, c_calls |-> c_calls, q |-> q, q_log |-> q_log, api |-> api])
    /\ api' = [ApiLocals("agent") EXCEPT
                  !.req = ChatRequest(api.req.state, ~api.req.show_debug)]
    /\ c' = CLocals("idle") /\ c_out' = NoChatOut /\ c_calls' = <<>>
    /\ q' = QLocals("idle") /\ q_out' = NoQueryOut /\ q_log' = <<>> /\ q_conn' = <<>>
    /\ UNCHANGED <<yVars, rag, san, vVars, rVars, oVars>>

InitReplay ==
    /\ VIdle /\ RIdle /\ QIdle /\ CIdle /\ OIdle /\ XIdle

NextReplay ==
    \/ FirstReceive
    \/ ReplayReceive
    \/ ApiGetAgent
    \/ ApiChat
    \/ ChatRoute(ReplayRouteTexts)
    \/ ChatDispatch
    \/ QGenerate(ReplaySqlTexts)
    \/ QValidate
    \/ QExecute(ReplayStoreOutputs)
    \/ QGenerateFallback(ReplayFallbackTexts)
    \/ QValidateFallback
    \/ QExecuteFallback(ReplayFallbackOutputs)
    \/ QSummarize
    \/ ChatSqlReturn
    \/ ChatSqlRaise
    \/ ChatRag(ReplayRagOutputs)
    \/ ChatAnalytics
    \/ ChatCompose
    \/ ChatUpdateState
    \/ ChatReturn
    \/ ApiRespond
    \/ ApiChatRaised
    \/ ApiExcept

SpecReplay == InitReplay /\ [][NextReplay]_vars

\* ---------------------------------------------------------------------
\* C28
\* ---------------------------------------------------------------------
\* both turns have been answered with a success
BothAnswered == Replaying /\ Responded /\ api.resp[1].status = 200

\* C28: two turns that receive the same state and the same oracle and tool
\* responses and differ only in show_debug invoke the same tools in the same
\* order and return the same final_answer, used_tools and state; show_debug
\* only adds the diagnostic fields to the response.
C28_DebugOnlyAdds ==
    BothAnswered =>
        LET a == First.api.resp[1]
            b == api.resp[1]
        IN /\ api.req.show_debug # First.api.req.show_debug
           /\ c_calls = First.c_calls
           /\ q_log = First.q_log
           /\ c.used_tools = First.c.used_tools
           /\ b.final_answer = a.final_answer
           /\ b.used_tools = a.used_tools
           /\ b.state = a.state
           /\ (b.tool_outputs # None) <=> api.req.show_debug
           /\ (b.debug # None) <=> api.req.show_debug
           /\ (a.tool_outputs # None) <=> First.api.req.show_debug
           /\ (a.debug # None) <=> First.api.req.show_debug

\* a hybrid turn that ran the fallback query was served without show_debug
\* and then with it
C28_Witness ==
    /\ BothAnswered
    /\ api.req.show_debug
    /\ c.used_tools = <<"SQLAgent", "RAGAgent">>
    /\ q.used_fallback
    /\ api.resp[1].state # api.req.state

\* ---------------------------------------------------------------------
\* The sanitizers: ChatAgent._sanitize_for_json and the endpoint's sanitize
\* ---------------------------------------------------------------------
\* a value given to a sanitizer is a PyVal whose dict members have Python
\* values as keys (a str, an int, ...), not yet converted to strings
Inf == PyNum(<<"inf">>)
NegInf == PyNum(<<"-inf">>)

\* math.isnan(x) or math.isinf(x); obj != obj or obj in (inf, -inf)
_is_bad_float(x) == x.t = "num" /\ x \in {NaN, Inf, NegInf}

\* {str(k): v for k, v in members}: a key that comes again keeps its place and
\* takes the later value
RECURSIVE DictOf(_)
DictOf(members) ==
    IF members = <<>> THEN <<>>
    ELSE LET n == Len(members)
             last == members[n]
             before == DictOf(SubSeq(members, 1, n - 1))
         IN IF \E i \in 1..Len(before) : before[i].key = last.key
            THEN [i \in 1..Len(before) |->
                     IF before[i].key = last.key THEN last ELSE before[i]]
            ELSE Append(before, last)

\* ChatAgent._sanitize_for_json, on values without dates, tables or numpy scalars
RECURSIVE _sanitize_for_json(_)
_sanitize_for_json(obj) ==
    CASE obj.t = "none" -> PyNone
      [] obj.t = "num"  -> IF _is_bad_float(obj) THEN PyNone ELSE obj
      [] obj.t = "dict" ->
            PyDict(DictOf([i \in 1..Len(obj.items) |->
                              Entry(PyStr(PyStrOf(obj.items[i].key)),
                                    _sanitize_for_json(obj.items[i].val))]))
      [] obj.t = "list" ->
            PyList([i \in 1..Len(obj.items) |-> _sanitize_for_json(obj.items[i])])
      [] OTHER -> obj

\* bool(pd.isna(obj)) of a list: pd.isna builds np.asarray(obj, dtype=object)
\* and tests it element by element; the truth value of the resulting array is
\* that of its element when it has exactly one (a list of length 1, nested in
\* lists of length 1), and raises or is False otherwise
RECURSIVE IsNaTruth(_)
IsNaTruth(obj) ==
    /\ obj.t = "list"
    /\ Len(obj.items) = 1
    /\ LET x == obj.items[1]
       IN IF x.t = "list" THEN IsNaTruth(x) ELSE x = PyNone \/ x = NaN

\* sanitize of api.py, on values without tables or numpy scalars:
\* try: if pd.isna(obj): return None except Exception: pass
\* comes before the dict and list branches
RECURSIVE sanitize(_)
sanitize(obj) ==
    CASE obj.t = "none" -> PyNone
      [] obj.t = "num"  -> IF _is_bad_float(obj) THEN PyNone ELSE obj
      [] obj.t = "list" /\ IsNaTruth(obj) -> PyNone
      [] obj.t = "dict" ->
            PyDict(DictOf([i \in 1..Len(obj.items) |->
                              Entry(PyStr(PyStrOf(obj.items[i].key)),
                                    sanitize(obj.items[i].val))]))
      [] obj.t = "list" ->
            PyList([i \in 1..Len(obj.items) |-> sanitize(obj.items[i])])
      [] OTHER -> obj

\* scalars: null, a boolean, an int, a finite float, NaN, the infinities, and
\* strings (one spelled like a NaN)
Scalars ==
    { PyNone, PyVal("bool", c_true, <<>>), PyNum(<<"1">>), PyNum(<<"2.5">>),
      NaN, Inf, NegInf, PyStr(<<"s">>), PyStr(<<"nan">>) }

\* sequences of at most MaxSeqLen scalars
ScalarLists == { PyList(l) : l \in UNION { [1..n -> Scalars] : n \in 0..MaxSeqLen } }

\* mappings of scalars, under str keys, under an int key, and under an int
\* key and the str key it converts to
ScalarDicts ==
    { PyDict(<<Entry(k, v)>>) : k \in { PyStr(<<"a">>), PyNum(<<"1">>) }, v \in Scalars } \cup
    { PyDict(<<Entry(PyStr(<<"a">>), v), Entry(PyStr(<<"b">>), w)>>) :
          v \in {NaN, PyNum(<<"1">>)}, w \in {Inf, PyStr(<<"s">>), PyNone} } \cup
    { PyDict(<<>>),
      PyDict(<<Entry(PyNum(<<"1">>), PyStr(<<"s">>)), Entry(PyStr(<<"1">>), NaN)>>) }

\* the values the sanitizers are applied to: scalars, containers of scalars,
\* and containers of those containers
SanInputs ==
    Scalars \cup ScalarLists \cup ScalarDicts \cup
    { PyList(<<x>>) : x \in { l \in ScalarLists : Len(l.items) <= 1 } \cup ScalarDicts } \cup
    { PyList(<<x, y>>) : x \in { PyList(<<NaN>>), PyList(<<PyNum(<<"1">>), Inf>>) },
                         y \in { PyNone, PyList(<<>>), PyDict(<<Entry(PyStr(<<"a">>), NegInf)>>) } } \cup
    { PyDict(<<Entry(PyStr(<<"rows">>), x)>>) : x \in ScalarLists } \cup
    { PyList(<<PyList(<<x>>)>>) : x \in { l \in ScalarLists : Len(l.items) <= 1 } }

\* self._sanitize_for_json(obj)
SanitizeChat ==
    /\ san.pc = "ready"
    /\ san.by_chat = None
    /\ san' = [san EXCEPT !.by_chat = Some(_sanitize_for_json(san.obj))]
    /\ UNCHANGED <<yVars, rag, api, twin, vVars, rVars, qVars, cVars, oVars>>

\* sanitize(obj)
SanitizeApi ==
    /\ san.pc = "ready"
    /\ san.by_api = None
    /\ san' = [san EXCEPT !.by_api = Some(sanitize(san.obj))]
    /\ UNCHANGED <<yVars, rag, api, twin, vVars, rVars, qVars, cVars, oVars>>

InitSanitize ==
    /\ san \in { [SanLocals("ready") EXCEPT !.obj = v] : v \in SanInputs }
    /\ rag = RagLocals("idle") /\ api = ApiLocals("idle") /\ twin = None
    /\ VIdle /\ RIdle /\ QIdle /\ CIdle /\ OIdle /\ YIdle

NextSanitize == SanitizeChat \/ SanitizeApi

SpecSanitize == InitSanitize /\ [][NextSanitize]_vars

\* ---------------------------------------------------------------------
\* C30
\* ---------------------------------------------------------------------
\* out has null where obj has NaN or an infinity, the leaf of obj elsewhere,
\* the elements of a sequence in their number and order, and one entry per
\* entry of a mapping, under the key converted to a string
RECURSIVE Conforms(_, _)
Conforms(obj, out) ==
    CASE obj.t = "list" ->
            /\ out.t = "list"
            /\ Len(out.items) = Len(obj.items)
            /\ \A i \in 1..Len(obj.items) : Conforms(obj.items[i], out.items[i])
      [] obj.t = "dict" ->
            /\ out.t = "dict"
            /\ Len(out.items) = Len(obj.items)
            /\ \A i \in 1..Len(obj.items) :
                  /\ out.items[i].key = PyStr(PyStrOf(obj.items[i].key))
                  /\ Conforms(obj.items[i].val, out.items[i].val)
      [] OTHER -> out = (IF _is_bad_float(obj) THEN PyNone ELSE obj)

\* C30: for every input built from nulls, booleans, finite numbers, NaN, the
\* infinities, strings, mappings and sequences, both sanitizers return a
\* value that has null where the input had NaN or an infinity, keeps every
\* other leaf, keeps the length and order of sequences, and keeps the entries
\* of mappings with their keys converted to strings.
C30_SanitizersConform ==
    /\ san.by_chat # None => Conforms(san.obj, san.by_chat[1])
    /\ san.by_api # None => Conforms(san.obj, san.by_api[1])

\* ---------------------------------------------------------------------
\* C31
\* ---------------------------------------------------------------------
\* the key of tool_outputs a tool writes
KeyOf(tool) ==
    CASE tool = "SQLAgent" -> "sql"
      [] tool = "RAGAgent" -> "rag"
      [] OTHER             -> "analytics"

\* the keys of tool_outputs a turn of this intent writes
KeysFor(intent) ==
    IF Expected(intent) = <<>> THEN {"general"}
    ELSE { KeyOf(Expected(intent)[i]) : i \in 1..Len(Expected(intent)) }

\* C31: every successful turn performs its steps in the order route,
\* dispatch, sanitize, compose, update state: the classifier oracle is called
\* exactly once and before any tool; every dispatched tool has returned
\* before compose is called; compose is called exactly once and receives the
\* sanitized form of exactly the tool outputs of this turn; the state is
\* updated exactly once, after compose.
C31_StepOrder ==
    /\ [](TurnDone =>
            /\ c_calls = <<"classify">> \o Expected(c.route.intent) \o <<"compose">>
            /\ c.payload # None
            /\ DOMAIN c.payload[1] = KeysFor(c.route.intent)
            /\ \A k \in DOMAIN c.payload[1] : c.tool_outputs[k] = Some(c.payload[1][k])
            /\ "sql" \in DOMAIN c.payload[1] => c.payload[1]["sql"] = q_out
            /\ "last_intent" \in c.written)
    /\ [](ComposeCalled =>
            /\ c.pc \in {"update", "return", "done", "failed"}
            /\ Invoked = Expected(c.route.intent)
            /\ \A k \in KeysFor(c.route.intent) : c.tool_outputs[k] # None)
    /\ [][(c.pc \in InTurn /\ (c'.cur_state # c.cur_state \/ c'.written # c.written)) =>
             (c.pc = "update" /\ c'.pc = "return" /\ c.payload # None /\ c.written = {})]_vars

\* a hybrid turn has returned: compose was given both outputs and the state
\* was updated from them
C31_Witness ==
    /\ TurnDone
    /\ DOMAIN c.payload[1] = {"sql", "rag"}
    /\ c.written = {"last_intent", "last_sql_columns", "last_sql_preview_rows",
                    "last_rag_top_sources"}

\* ---------------------------------------------------------------------
\* C32, C33, C34
\* ---------------------------------------------------------------------
\* the last call of one kind
LastOf(o) == CHOOSE i \in CallsOf(o) : \A j \in CallsOf(o) : j <= i

\* C32: provided every oracle call and every execution returns or raises,
\* query always terminates, after at most two SQL generations, two
\* validations and two executions (an empty fallback result starts no second
\* retry); whenever it returns, Summarize was called exactly once, as the
\* last step, with sql_used and the result of executing sql_used, zero rows
\* included.
C32_QueryTerminates ==
    /\ <>(q.pc \in {"returned", "raised", "no_agent"})
    /\ [](/\ Cardinality(CallsOf("generate") \cup CallsOf("generate_fallback")) <= 2
          /\ Cardinality(CallsOf("validate")) <= 2
          /\ Cardinality(CallsOf("execute")) <= 2
          /\ Cardinality(CallsOf("summarize")) <= 1)
    /\ [](q.pc = "returned" =>
            /\ CallsOf("summarize") = {Len(q_log)}
            /\ q_log[Len(q_log)].verdict = "ok"
            /\ q_log[Len(q_log)].sql = q_out.sql_used
            /\ q_log[Len(q_log)].result = q_out.result
            /\ LastOf("execute") = Len(q_log) - 1
                  \/ (UnsafeFallback /\ LastOf("execute") = 3)
            /\ q_log[LastOf("execute")].sql = q_out.sql_used
            /\ q_log[LastOf("execute")].result = q_out.result)

\* a query returned after two executions that both gave no row
C32_Witness ==
    /\ q.pc = "returned"
    /\ Cardinality(CallsOf("execute")) = 2
    /\ q_out.result.rows = <<>>
    /\ q_log[Len(q_log)].op = "summarize" /\ q_log[Len(q_log)].result.rows = <<>>

\* C33: in every result query returns, result is the outcome of executing
\* sql_used; sql_used is sql_fallback when used_fallback is true and
\* sql_initial otherwise; sql_fallback is the empty string exactly when
\* used_fallback is false; sql_initial and sql_used hold no semicolon.
C33_ResultFields ==
    q.pc = "returned" =>
        /\ q_log[LastOf("execute")].verdict = "ok"
        /\ q_log[LastOf("execute")].sql = q_out.sql_used
        /\ q_log[LastOf("execute")].result = q_out.result
        /\ q_out.sql_used = IF q_out.used_fallback THEN q_out.sql_fallback
                            ELSE q_out.sql_initial
        /\ (q_out.sql_fallback = <<>>) <=> ~q_out.used_fallback
        /\ ~Contains(q_out.sql_initial, <<";">>)
        /\ ~Contains(q_out.sql_used, <<";">>)

\* a result returned after a fallback whose text differs from the first SQL
C33_Witness ==
    /\ q.pc = "returned" /\ q_out.used_fallback
    /\ q_out.sql_fallback # q_out.sql_initial
    /\ q_out.sql_used = q_out.sql_fallback

\* the first result was empty, the fallback passed validation and its
\* execution raised
FallbackExecutionRaised ==
    /\ FirstEmpty
    /\ Len(q_log) >= 6
    /\ q_log[4].op = "generate_fallback" /\ q_log[4].verdict = "ok"
    /\ q_log[5].op = "validate" /\ q_log[5].verdict = "safe"
    /\ q_log[6].op = "execute" /\ q_log[6].verdict = "error"

\* C34: when the first query returns zero rows and the fallback passes
\* validation but its execution raises, query propagates the error: it
\* returns no result and never calls Summarize; in the router the turn then
\* fails, with no compose, no return value and no state update.
C34_FallbackErrorPropagates ==
    /\ [](FallbackExecutionRaised =>
            /\ q.pc = "raised" /\ Len(q_log) = 6
            /\ q_out = NoQueryOut
            /\ CallsOf("summarize") = {}
            /\ c.pc \in {"sql", "failed"}
            /\ c.tool_outputs.sql = None
            /\ ~ComposeCalled
            /\ c.cur_state = Supplied /\ c.written = {}
            /\ c_out = NoChatOut)
    /\ [][(FallbackExecutionRaised /\ c.pc = "sql") => c'.pc = "failed"]_vars

\* the turn has failed on the error of the fallback execution
C34_Witness == FallbackExecutionRaised /\ c.pc = "failed"

\* ---------------------------------------------------------------------
\* The server process: requests served by threads of one process
\* ---------------------------------------------------------------------
\* chat is a plain def, which the framework runs in a worker thread: two
\* requests can be inside the endpoint at once
Threads == {1, 2}

\* the fields ChatAgent.__init__ assigns on the n-th instance built
NewChatAgent(n) == [name |-> "ChatAgent", sql_agent |-> n, rag_agent |-> n,
                    orchestrator |-> n]

\* the locals of one request: those of the endpoint (req, agent, resp), of
\* get_agent (built: the instance under construction) and of chat
SLocals(p) == [pc |-> p, req |-> ChatRequest(NoStateArg, FALSE), built |-> None,
               agent |-> None, cur_state |-> ChatState(None, None, None, None, None),
               intent |-> None, tool_outputs |-> NoToolOutputs, resp |-> None]

\* the process before the first request: _agent: Optional[ChatAgent] = None
Server == [_agent |-> None, instances |-> <<>>, requests |-> 0,
           th |-> [t \in Threads |-> SLocals("idle")]]

\* states sent with a request: none, a full one, one with an unknown key
ServerStates ==
    { NoStateArg, UnknownKeyState,
      StateDict(StateFields,
                ChatState(Some(I_rag), Some(s_select_x), Some(<<"k">>), Some(<<7, 8>>), Some(<<9>>))) }

\* what SQLAgent.query and RAGAgent.answer return to a turn
ServerSqlOutputs ==
    { [NoQueryOut EXCEPT !.result = r] : r \in { Result(<<"a">>, <<>>), Result(<<"b">>, <<1, 2>>) } }

ServerRagOutputs == { o \in RagOutputs : Len(o.sources) \in {0, top_k} }

\* chat(req): a request arrives and is given to a free thread
SrvReceive(states) ==
    \E t \in Threads :
        /\ srv.th[t].pc \in {"idle", "responded"}
        /\ srv.requests < MaxRequests
        /\ \E st \in states :
              srv' = [srv EXCEPT !.requests = @ + 1,
                                 !.th[t] = [SLocals("get_agent") EXCEPT
                                               !.req = ChatRequest(st, FALSE)]]
        /\ UNCHANGED <<rag, api, twin, san, ldr, ui, eda, vVars, rVars, qVars, cVars, oVars>>

\* get_agent: if _agent is None:
GetAgentTest ==
    \E t \in Threads :
        /\ srv.th[t].pc = "get_agent"
        /\ srv' = [srv EXCEPT !.th[t].pc = IF srv._agent = None THEN "construct"
                                           ELSE "ga_return"]
        /\ UNCHANGED <<rag, api, twin, san, ldr, ui, eda, vVars, rVars, qVars, cVars, oVars>>

\* get_agent: ChatAgent(), the right-hand side of the assignment; it builds
\* the three tools and can raise
GetAgentConstruct ==
    \E t \in Threads :
        /\ srv.th[t].pc = "construct"
        /\ \/ srv' = [srv EXCEPT
                        !.instances = Append(@, NewChatAgent(Len(@) + 1)),
                        !.th[t].built = Some(Len(srv.instances) + 1),
                        !.th[t].pc = "assign"]
           \/ srv' = [srv EXCEPT !.th[t].pc = "except"]
        /\ UNCHANGED <<rag, api, twin, san, ldr, ui, eda, vVars, rVars, qVars, cVars, oVars>>

\* get_agent: _agent = <the instance just built>
GetAgentAssign ==
    \E t \in Threads :
        /\ srv.th[t].pc = "assign"
        /\ srv' = [srv EXCEPT !._agent = srv.th[t].built, !.th[t].pc = "ga_return"]
        /\ UNCHANGED <<rag, api, twin, san, ldr, ui, eda, vVars, rVars, qVars, cVars, oVars>>

\* get_agent: return _agent (the global is read again); agent = get_agent()
GetAgentReturn ==
    \E t \in Threads :
        /\ srv.th[t].pc = "ga_return"
        /\ srv' = [srv EXCEPT !.th[t].agent = srv._agent, !.th[t].pc = "chat"]
        /\ UNCHANGED <<rag, api, twin, san, ldr, ui, eda, vVars, rVars, qVars, cVars, oVars>>

\* chat: cur_state = ChatState(**state) if isinstance(state, dict) else ChatState()
SrvChatStart ==
    \E t \in Threads :
        /\ srv.th[t].pc = "chat"
        /\ srv' = IF ChatStateRaises(srv.th[t].req.state)
                  THEN [srv EXCEPT !.th[t].pc = "except"]
                  ELSE [srv EXCEPT !.th[t].pc = "route",
                                   !.th[t].cur_state = ChatStateOf(srv.th[t].req.state)]
        /\ UNCHANGED <<rag, api, twin, san, ldr, ui, eda, vVars, rVars, qVars, cVars, oVars>>

\* chat: route = self._route_intent(...); intent = route["intent"]
SrvChatRoute(intents) ==
    \E t \in Threads :
        /\ srv.th[t].pc = "route"
        /\ \/ \E i \in intents :
                srv' = [srv EXCEPT !.th[t].pc = "dispatch", !.th[t].intent = Some(i)]
           \/ srv' = [srv EXCEPT !.th[t].pc = "except"]
        /\ UNCHANGED <<rag, api, twin, san, ldr, ui, eda, vVars, rVars, qVars, cVars, oVars>>

\* chat: the branch of the intent calls its tools and stores what they
\* return; a tool can raise, and the analytics pipeline ends as
\* OrchestratorAgent.run ends
SrvChatDispatch(sqls, rags) ==
    \E t \in Threads :
        /\ srv.th[t].pc = "dispatch"
        /\ LET intent == srv.th[t].intent[1]
               go(outs) == srv' = [srv EXCEPT !.th[t].pc = "compose",
                                              !.th[t].tool_outputs = outs]
               raise == srv' = [srv EXCEPT !.th[t].pc = "except"]
           IN CASE intent = I_sql ->
                     \/ \E o \in sqls : go([NoToolOutputs EXCEPT !.sql = Some(o)])
                     \/ raise
                [] intent = I_rag ->
                     \/ \E o \in rags : go([NoToolOutputs EXCEPT !.rag = Some(o)])
                     \/ raise
                [] intent = I_hybrid ->
                     \/ \E o \in sqls, r \in rags :
                           go([NoToolOutputs EXCEPT !.sql = Some(o), !.rag = Some(r)])
                     \/ raise
                [] intent = I_analytics ->
                     \E df \in Tables, raw \in InsightBodies :
                        LET run == OrchestratorRun(EmptyCtx, df, raw)
                        IN IF run.raised
                           THEN raise
                           ELSE go([NoToolOutputs EXCEPT !.analytics = Some(OrchOut(
                                      [OLocals("return") EXCEPT !.ctx = run.ctx,
                                                                !.step3 = run]))])
                [] OTHER -> go([NoToolOutputs EXCEPT !.general = Some(NoToolNote)])
        /\ UNCHANGED <<rag, api, twin, san, ldr, ui, eda, vVars, rVars, qVars, cVars, oVars>>

\* chat: final_answer = self._compose_answer(...)
SrvChatCompose ==
    \E t \in Threads :
        /\ srv.th[t].pc = "compose"
        /\ \/ srv' = [srv EXCEPT !.th[t].pc = "update"]
           \/ srv' = [srv EXCEPT !.th[t].pc = "except"]
        /\ UNCHANGED <<rag, api, twin, san, ldr, ui, eda, vVars, rVars, qVars, cVars, oVars>>

\* a chat that keeps the state of the last turn in a field of the instance
\* and updates that
mut_SrvChatUpdate_on_instance ==
    \E t \in Threads :
        /\ srv.th[t].pc = "update"
        /\ LET self == srv.instances[srv.th[t].agent[1]]
               before == IF "state" \in DOMAIN self THEN self.state ELSE srv.th[t].cur_state
               after == Updated(before, srv.th[t].intent[1], srv.th[t].tool_outputs)
           IN srv' = [srv EXCEPT
                        !.th[t].pc = "return",
                        !.th[t].cur_state = after,
                        !.instances[srv.th[t].agent[1]] =
                            [f \in DOMAIN self \cup {"state"} |->
                                IF f = "state" THEN after ELSE self[f]]]
        /\ UNCHANGED <<rag, api, twin, san, ldr, ui, eda, vVars, rVars, qVars, cVars, oVars>>

\* chat: cur_state.last_intent = intent; ... (cur_state is a local)
SrvChatUpdate ==
    \E t \in Threads :
        /\ srv.th[t].pc = "update"
        /\ srv' = [srv EXCEPT
                     !.th[t].pc = "return",
                     !.th[t].cur_state = Updated(srv.th[t].cur_state, srv.th[t].intent[1],
                                                 srv.th[t].tool_outputs)]
        /\ UNCHANGED <<rag, api, twin, san, ldr, ui, eda, vVars, rVars, qVars, cVars, oVars>>

\* chat returns out; the endpoint returns sanitize(resp)
SrvRespond ==
    \E t \in Threads :
        /\ srv.th[t].pc = "return"
        /\ srv' = [srv EXCEPT
                     !.th[t].pc = "responded",
                     !.th[t].resp = Some(Success("final answer",
                                                 Expected(srv.th[t].intent[1]),
                                                 asdict(srv.th[t].cur_state), None, None))]
        /\ UNCHANGED <<rag, api, twin, san, ldr, ui, eda, vVars, rVars, qVars, cVars, oVars>>

\* except Exception as e: ... raise HTTPException(status_code=500, ...)
SrvExcept ==
    \E t \in Threads :
        /\ srv.th[t].pc = "except"
        /\ srv' = [srv EXCEPT !.th[t].pc = "responded",
                              !.th[t].resp = Some(Failure(TRUE, TRUE))]
        /\ UNCHANGED <<rag, api, twin, san, ldr, ui, eda, vVars, rVars, qVars, cVars, oVars>>

InitServer ==
    /\ srv = Server
    /\ ldr = None /\ ui = None /\ eda = None
    /\ rag = RagLocals("idle") /\ api = ApiLocals("idle") /\ twin = None
    /\ san = SanLocals("off")
    /\ VIdle /\ RIdle /\ QIdle /\ CIdle /\ OIdle

NextServer ==
    \/ SrvReceive(ServerStates)
    \/ GetAgentTest
    \/ GetAgentConstruct
    \/ GetAgentAssign
    \/ GetAgentReturn
    \/ SrvChatStart
    \/ SrvChatRoute(Intent)
    \/ SrvChatDispatch(ServerSqlOutputs, ServerRagOutputs)
    \/ SrvChatCompose
    \/ SrvChatUpdate
    \/ SrvRespond
    \/ SrvExcept

SpecServer == InitServer /\ [][NextServer]_vars

\* ---------------------------------------------------------------------
\* C35, C37
\* ---------------------------------------------------------------------
\* the positions of a thread inside ChatAgent.chat
InChat == {"chat", "route", "dispatch", "compose", "update", "return"}

\* the request of thread t was answered with a success
Answered(t) == srv.th[t].pc = "responded" /\ srv.th[t].resp[1].status = 200

\* C35: chat writes to no field of the shared ChatAgent instance and to no
\* process-global variable, so when two conversations are served by the
\* same process in any interleaving, the state returned to each depends
\* only on the state that conversation supplied and on the oracle and tool
\* responses of its own turn.
C35_StateIsLocal ==
    /\ [](\A t \in Threads :
            Answered(t) =>
                srv.th[t].resp[1].state =
                    asdict(Updated(ChatStateOf(srv.th[t].req.state), srv.th[t].intent[1],
                                   srv.th[t].tool_outputs)))
    /\ [][\A t \in Threads :
            (srv.th[t].pc \in InChat /\ srv'.th[t] # srv.th[t]) =>
                (srv'._agent = srv._agent /\ srv'.instances = srv.instances)]_vars

\* both threads have answered turns that supplied different states and were
\* given different intents, served by one instance
C35_Witness ==
    /\ Answered(1) /\ Answered(2)
    /\ srv.th[1].agent = srv.th[2].agent
    /\ srv.th[1].req.state # srv.th[2].req.state
    /\ srv.th[1].intent # srv.th[2].intent
    /\ srv.th[1].resp[1].state # srv.th[2].resp[1].state

\* C37: get_agent constructs at most one ChatAgent per process, for any
\* interleaving of concurrent first requests, and every request after a
\* successful construction is served by that same instance; if construction
\* raises, the global stays unset, the failing request is reported as a turn
\* failure, and the next request attempts construction again.
C37_OneAgent ==
    /\ Len(srv.instances) <= 1
    /\ srv._agent # None => srv._agent = Some(1)
    /\ \A t \in Threads :
          /\ srv.th[t].agent # None => srv.th[t].agent = Some(1)
          /\ srv.th[t].pc = "construct" => srv._agent = None
          /\ (srv.th[t].pc = "except" /\ srv.th[t].agent = None) =>
                (srv.th[t].built = None /\ srv._agent = None)

\* ---------------------------------------------------------------------
\* OlistDataLoader under DataAgent.run, called from two request threads
\* ---------------------------------------------------------------------
\* the tables DataAgent.run asks the loader for
TableNames == {"orders", "order_items", "customers", "reviews", "order_reviews",
               "payments", "order_payments"}

\* the properties DataAgent.run reads, in its order, each with the table
\* names its getter tries (order_reviews and order_payments fall back to a
\* second name when loading the first raises)
Access == << <<"orders">>, <<"order_items">>, <<"customers">>,
             <<"reviews", "order_reviews">>, <<"payments", "order_payments">> >>

\* the frame the n-th successful read of a table produced; parsed tells
\* whether its date columns were converted in place
Frame(name, n) == [name |-> name, read |-> n, parsed |-> FALSE]

\* loader.orders: df = self._load_table("orders").copy(); df[c] = pd.to_datetime(...)
\* and DataAgent.run: self.loader.<table>.copy(); _ensure_datetime(orders, ...):
\* the copy the caller works on
CopyOf(frame) == [frame EXCEPT !.parsed = (frame.name = "orders")]

\* the locals of one thread in DataAgent.run: the property it is at (i), the
\* name it tries (j), the frame just read (df) and the copies it holds
LLocals(p) == [pc |-> p, i |-> 1, j |-> 1, df |-> None, frames |-> <<>>]

\* OlistDataLoader.__init__: self._cache = {}
Loader(tables) == [_cache |-> [n \in TableNames |-> None],
                   reads |-> [n \in TableNames |-> 0],
                   store |-> tables, runs |-> 0,
                   th |-> [t \in Threads |-> LLocals("idle")]]

\* the name thread t is loading
Loading(t) == Access[ldr.th[t].i][ldr.th[t].j]

\* _load_table returned `frame`: the caller copies it and goes on to the
\* next property, or to the merge after the last
Got(l, frame) ==
    [l EXCEPT !.frames = Append(@, CopyOf(frame)), !.df = None, !.j = 1,
              !.i = IF l.i < Len(Access) THEN l.i + 1 ELSE l.i,
              !.pc = IF l.i < Len(Access) THEN "test" ELSE "merge"]

\* DataAgent.run is called
LdrRun ==
    \E t \in Threads :
        /\ ldr.th[t].pc \in {"idle", "returned", "raised"}
        /\ ldr.runs < MaxRuns
        /\ ldr' = [ldr EXCEPT !.runs = @ + 1, !.th[t] = LLocals("test")]
        /\ UNCHANGED <<rag, api, twin, san, srv, ui, eda, vVars, rVars, qVars, cVars, oVars>>

\* _load_table: if table_name in self._cache: return self._cache[table_name]
LoadTest ==
    \E t \in Threads :
        /\ ldr.th[t].pc = "test"
        /\ ldr' = IF ldr._cache[Loading(t)] # None
                  THEN [ldr EXCEPT !.th[t] = Got(@, ldr._cache[Loading(t)][1])]
                  ELSE [ldr EXCEPT !.th[t].pc = "read"]
        /\ UNCHANGED <<rag, api, twin, san, srv, ui, eda, vVars, rVars, qVars, cVars, oVars>>

\* _load_table: df = self._read_sql(f"SELECT * FROM {table_name}"); the read
\* raises when the store has no such table, and can raise otherwise; the
\* getters of order_reviews and order_payments then try their second name
LoadRead ==
    \E t \in Threads :
        /\ ldr.th[t].pc = "read"
        /\ \/ /\ Loading(t) \in ldr.store
              /\ ldr' = [ldr EXCEPT
                           !.reads[Loading(t)] = @ + 1,
                           !.th[t].df = Some(Frame(Loading(t), ldr.reads[Loading(t)] + 1)),
                           !.th[t].pc = "store"]
           \/ ldr' = IF ldr.th[t].j < Len(Access[ldr.th[t].i])
                     THEN [ldr EXCEPT !.th[t].j = @ + 1, !.th[t].pc = "test"]
                     ELSE [ldr EXCEPT !.th[t].pc = "raised"]
        /\ UNCHANGED <<rag, api, twin, san, srv, ui, eda, vVars, rVars, qVars, cVars, oVars>>

\* _load_table: self._cache[table_name] = df; return df
LoadStore ==
    \E t \in Threads :
        /\ ldr.th[t].pc = "store"
        /\ ldr' = [ldr EXCEPT !._cache[Loading(t)] = ldr.th[t].df,
                              !.th[t] = Got(@, ldr.th[t].df[1])]
        /\ UNCHANGED <<rag, api, twin, san, srv, ui, eda, vVars, rVars, qVars, cVars, oVars>>

\* DataAgent.run: the aggregations and merges on its copies; return {...}
LdrMerge ==
    \E t \in Threads :
        /\ ldr.th[t].pc = "merge"
        /\ ldr' = [ldr EXCEPT !.th[t].pc = "returned"]
        /\ UNCHANGED <<rag, api, twin, san, srv, ui, eda, vVars, rVars, qVars, cVars, oVars>>

\* the store names its review and payment tables one way or the other
Stores == { {"orders", "order_items", "customers", "reviews", "payments"},
            {"orders", "order_items", "customers", "order_reviews", "order_payments"} }

InitLoader ==
    /\ ldr \in { Loader(tables) : tables \in Stores }
    /\ srv = None /\ ui = None /\ eda = None
    /\ rag = RagLocals("idle") /\ api = ApiLocals("idle") /\ twin = None
    /\ san = SanLocals("off")
    /\ VIdle /\ RIdle /\ QIdle /\ CIdle /\ OIdle

NextLoader == LdrRun \/ LoadTest \/ LoadRead \/ LoadStore \/ LdrMerge

SpecLoader == InitLoader /\ [][NextLoader]_vars

\* ---------------------------------------------------------------------
\* C36
\* ---------------------------------------------------------------------
\* C36: for each table name the loader reads the table from the store at
\* most once per process, for any number and any interleaving of requests;
\* once a table is in the cache its entry is never removed or replaced,
\* every later access returns the cached table without a store read, and
\* the pipeline never mutates a cached table (it works on copies).
C36_LoadedOnce ==
    /\ [](\A n \in TableNames :
            /\ ldr.reads[n] <= 1
            /\ ldr._cache[n] # None => ~ldr._cache[n][1].parsed)
    /\ [][\A n \in TableNames : ldr._cache[n] # None => ldr'._cache[n] = ldr._cache[n]]_vars
    /\ [][\A t \in Threads :
            (ldr.th[t].pc = "test" /\ ldr._cache[Loading(t)] # None
               /\ ldr'.th[t] # ldr.th[t]) =>
                 (ldr'.reads = ldr.reads /\ ldr'.th[t].pc # "read")]_vars

\* ---------------------------------------------------------------------
\* The chat client: streamlit_app.main and services.api_client.chat
\* ---------------------------------------------------------------------
\* st.session_state.chat_state = {}
EmptyState == StateDict({}, ChatState(None, None, None, None, None))

\* api_client.chat: "state": state or {}
SentState(state) == IF state.keys = {} THEN EmptyState ELSE state

\* the states the backend returns in a 200 response
ReturnedStates ==
    { asdict(ChatState(Some(I_sql), None, Some(<<"k">>), Some(<<7>>), None)),
      asdict(ChatState(Some(I_rag), None, None, None, Some(<<9>>))) }

\* one turn in the record of the session: the state sent, the status of the
\* response (0 when none arrived), the state in its body and how the turn
\* ended ("ok" when the try block ran to its end, "failed" when it raised)
Turn(sent, status, state, outcome) ==
    [sent |-> sent, status |-> status, state |-> state, outcome |-> outcome]

\* the session of one browser tab: init_state, with the script at rest
Client == [pc |-> "idle", messages |-> <<>>, chat_state |-> EmptyState,
           out |-> None, turns |-> 0, log |-> <<>>]

\* the turn in flight ends with `outcome`
Ended(log, outcome) == [log EXCEPT ![Len(log)].outcome = outcome]

\* if st.button("Clear chat"): messages = []; chat_state = {}; ...; st.rerun()
UiClear ==
    /\ ui.pc = "idle"
    /\ ui' = [ui EXCEPT !.messages = <<>>, !.chat_state = EmptyState, !.out = None,
                        !.log = <<>>]
    /\ UNCHANGED <<rag, api, twin, san, srv, ldr, eda, vVars, rVars, qVars, cVars, oVars>>

\* if user_msg: messages.append({"role": "user", ...}); chat(..., state=chat_state)
\* builds the payload
UiSubmit ==
    /\ ui.pc = "idle"
    /\ ui.turns < MaxTurns
    /\ ui' = [ui EXCEPT !.pc = "post", !.turns = @ + 1, !.out = None,
                        !.messages = Append(@, "user"),
                        !.log = Append(@, Turn(SentState(ui.chat_state), 0, None, "pending"))]
    /\ UNCHANGED <<rag, api, twin, san, srv, ldr, eda, vVars, rVars, qVars, cVars, oVars>>

\* r = requests.post(...): a timeout or a connection error raises; a status
\* other than 200 raises APIError; return r.json() raises when the body is
\* not JSON
UiPost(states) ==
    /\ ui.pc = "post"
    /\ \/ \E st \in states :
             ui' = [ui EXCEPT !.pc = "render", !.out = Some(st),
                              !.log[Len(ui.log)].status = 200,
                              !.log[Len(ui.log)].state = Some(st)]
       \/ ui' = [ui EXCEPT !.pc = "except", !.log[Len(ui.log)].status = 200]
       \/ ui' = [ui EXCEPT !.pc = "except", !.log[Len(ui.log)].status = 500]
       \/ ui' = [ui EXCEPT !.pc = "except"]
    /\ UNCHANGED <<rag, api, twin, san, srv, ldr, eda, vVars, rVars, qVars, cVars, oVars>>

\* answer = out.get("final_answer", ...); st.markdown(answer);
\* messages.append({"role": "assistant", "content": answer})
UiRender ==
    /\ ui.pc = "render"
    /\ ui' = [ui EXCEPT !.pc = "tokens", !.messages = Append(@, "assistant")]
    /\ UNCHANGED <<rag, api, twin, san, srv, ldr, eda, vVars, rVars, qVars, cVars, oVars>>

\* prompt_tokens = count_tokens(prompt_text); ...: the tokenizer is loaded
\* by encoding_for_model, which can raise
UiTokens ==
    /\ ui.pc = "tokens"
    /\ \/ ui' = [ui EXCEPT !.pc = "update"]
       \/ ui' = [ui EXCEPT !.pc = "except"]
    /\ UNCHANGED <<rag, api, twin, san, srv, ldr, eda, vVars, rVars, qVars, cVars, oVars>>

\* if isinstance(out.get("state"), dict): chat_state = out["state"];
\* if show_debug: ... (the end of the try block)
UiUpdate ==
    /\ ui.pc = "update"
    /\ ui' = [ui EXCEPT !.pc = "idle",
                        !.chat_state = IF ui.out[1].kind = "dict" THEN ui.out[1] ELSE @,
                        !.log = Ended(@, "ok")]
    /\ UNCHANGED <<rag, api, twin, san, srv, ldr, eda, vVars, rVars, qVars, cVars, oVars>>

\* a client that forgets the state when a turn fails
mut_UiExcept_resets ==
    /\ ui.pc = "except"
    /\ ui' = [ui EXCEPT !.pc = "idle", !.chat_state = EmptyState,
                        !.log = Ended(@, "failed")]
    /\ UNCHANGED <<rag, api, twin, san, srv, ldr, eda, vVars, rVars, qVars, cVars, oVars>>

\* except APIError as e: st.error(str(e)); except Exception as e: st.exception(e)
UiExcept ==
    /\ ui.pc = "except"
    /\ ui' = [ui EXCEPT !.pc = "idle", !.log = Ended(@, "failed")]
    /\ UNCHANGED <<rag, api, twin, san, srv, ldr, eda, vVars, rVars, qVars, cVars, oVars>>

InitClient ==
    /\ ui = Client
    /\ srv = None /\ ldr = None /\ eda = None
    /\ rag = RagLocals("idle") /\ api = ApiLocals("idle") /\ twin = None
    /\ san = SanLocals("off")
    /\ VIdle /\ RIdle /\ QIdle /\ CIdle /\ OIdle

NextClient ==
    \/ UiClear
    \/ UiSubmit
    \/ UiPost(ReturnedStates)
    \/ UiRender
    \/ UiTokens
    \/ UiUpdate
    \/ UiExcept

SpecClient == InitClient /\ [][NextClient]_vars

\* ---------------------------------------------------------------------
\* C38
\* ---------------------------------------------------------------------
\* the state returned by the last of the first n turns of the record that
\* ended well, the empty state when there is none
LastReturned(n) ==
    LET ok == { i \in 1..n : ui.log[i].outcome = "ok" }
    IN IF ok = {} THEN EmptyState
       ELSE ui.log[CHOOSE i \in ok : \A j \in ok : j <= i].state[1]

\* C38: in the chat client the state sent with a turn is always the state
\* returned by the most recent successful turn since the last Clear chat
\* (empty if there was none): a turn that fails (a response other than 200,
\* a timeout or another exception) leaves the stored chat_state unchanged, a
\* successful turn replaces it with the returned state, and Clear chat
\* resets it to empty together with the message list.
C38_StateThreaded ==
    /\ [](\A i \in 1..Len(ui.log) : ui.log[i].sent = LastReturned(i - 1))
    /\ [](ui.chat_state = LastReturned(Len(ui.log)))
    /\ [](\A i \in 1..Len(ui.log) : ui.log[i].status # 200 => ui.log[i].outcome # "ok")
    /\ [][(ui.pc = "except" /\ ui'.pc = "idle") => ui'.chat_state = ui.chat_state]_vars
    /\ [][(ui.pc = "update" /\ ui'.pc = "idle") => ui'.chat_state = ui.out[1]]_vars
    /\ [][(ui.log # <<>> /\ ui'.log = <<>>) =>
             (ui'.chat_state = EmptyState /\ ui'.messages = <<>>)]_vars

\* a turn that ended well, then one that failed, then a third that was sent
\* the state of the first
C38_Witness ==
    /\ Len(ui.log) = 3
    /\ ui.log[1].outcome = "ok" /\ ui.log[2].outcome = "failed"
    /\ ui.log[3].sent = ui.log[1].state[1]
    /\ ui.log[3].outcome = "ok" /\ ui.chat_state = ui.log[3].state[1]
    /\ ui.log[3].state # ui.log[1].state

\* ---------------------------------------------------------------------
\* C39
\* ---------------------------------------------------------------------
\* DataAgent.run has returned in this run of the pipeline
DataReturned == orch.pc \in {"eda", "insight", "return", "returned"}

\* C39: the value the analytics pipeline hands back to its caller (the
\* result of OrchestratorAgent.run, and the context DataAgent.run returns)
\* never contains the full merged table: of the merged data it holds only a
\* preview of at most the first 20 rows, the column list and the shape.
C39_OnlyPreview ==
    /\ DataReturned =>
          /\ orch.ctx["_orders_merged_df"] = None
          /\ orch.ctx["orders_merged_preview"] # None
          /\ orch.ctx["orders_merged_preview"][1] <= 20
          /\ orch.ctx["orders_merged_columns"] # None
          /\ orch.ctx["orders_merged_shape"] # None
    /\ orch.pc = "returned" => orch_out.context["_orders_merged_df"] = None

\* ---------------------------------------------------------------------
\* EDAAgent.run on a table
\* ---------------------------------------------------------------------
\* a column of the table: its name, its dtype ("num", "time" or "obj"), the
\* number of its cells that are missing and the number of distinct values
\* among the others
Column(name, kind, missing, distinct) ==
    [name |-> name, kind |-> kind, missing |-> missing, distinct |-> distinct]

\* a table: its number of rows and its columns, in order
Table(rows, cols) == [rows |-> rows, cols |-> cols]

Min(a, b) == IF a < b THEN a ELSE b

\* the candidates of run, in its order
CategoryCandidates == <<"product_category_name", "product_category_en", "seller_city",
                        "customer_state", "order_status">>

\* the columns DataAgent.run converts to datetime
DateColumns == <<"order_purchase_timestamp", "order_approved_at",
                 "order_delivered_carrier_date", "order_delivered_customer_date",
                 "order_estimated_delivery_date">>

\* df.isna().mean().sort_values(ascending=False).head(top_k), top_k = 10, then
\* the entries with v > 0 (the mean of a column without rows is NaN, which is
\* not > 0; columns of equal rate are taken in table order)
_top_missing(df) ==
    LET n == Len(df.cols)
        Before(j, i) == \/ df.cols[j].missing > df.cols[i].missing
                        \/ df.cols[j].missing = df.cols[i].missing /\ j < i
        Rank(i) == Cardinality({ j \in 1..n : Before(j, i) })
        head == [r \in 1..Min(10, n) |-> df.cols[CHOOSE i \in 1..n : Rank(i) = r - 1]]
        Positive(col) == df.rows > 0 /\ col.missing > 0
        Entry_(col) == [column |-> col.name, missing_rate |-> <<col.missing, df.rows>>]
        kept == SelectSeq(head, Positive)
    IN [i \in 1..Len(kept) |-> Entry_(kept[i])]

\* cols = cols[:top_k], top_k = 12; one row of statistics per column
_numeric_describe_compact(df, cols) ==
    LET few == Take(cols, 12)
    IN IF few = <<>> THEN [columns |-> <<>>, rows |-> <<>>]
       ELSE [columns |-> <<"column", "count", "mean", "std", "min", "25%", "50%", "75%", "max">>,
             rows |-> [i \in 1..Len(few) |-> [column |-> few[i].name]]]

\* df[col].astype("object").fillna("NULL").value_counts().head(top_k), top_k = 10
_top_categories(df, col) ==
    LET present == Min(col.distinct, df.rows - col.missing)
        values == present + (IF col.missing > 0 THEN 1 ELSE 0)
    IN [column |-> col.name, top |-> [i \in 1..Min(10, values) |-> i]]

\* one entry per datetime column that has a value
_detect_time_ranges(df) ==
    LET HasRange(col) == col.kind = "time" /\ df.rows - col.missing > 0
        found == SelectSeq(df.cols, HasRange)
    IN [i \in 1..Len(found) |-> [column |-> found[i].name]]

\* the eda dict EDAAgent.run builds from the table
EdaOf(df) ==
    LET IsNumeric(col) == col.kind = "num"
        InTable(name) == \E i \in 1..Len(df.cols) : df.cols[i].name = name
        ColumnOf(name) == df.cols[CHOOSE i \in 1..Len(df.cols) : df.cols[i].name = name]
        cat_candidates == Take(SelectSeq(CategoryCandidates, InTable), 4)
    IN [shape |-> <<df.rows, Len(df.cols)>>,
        columns |-> Take([i \in 1..Len(df.cols) |-> df.cols[i].name], 200),
        missing_top |-> _top_missing(df),
        numeric_describe |-> _numeric_describe_compact(df, SelectSeq(df.cols, IsNumeric)),
        category_top |-> [i \in 1..Len(cat_candidates) |->
                             _top_categories(df, ColumnOf(cat_candidates[i]))],
        time_ranges |-> _detect_time_ranges(df)]

\* the number of cells missing in the i-th column of a generated table
MissingOf(pattern, rows, i) ==
    CASE pattern = "none" -> 0
      [] pattern = "all"  -> rows
      [] OTHER            -> i % (rows + 1)

\* a table of `rows` rows with the first nc candidate columns, nt datetime
\* columns, nn numeric columns and no other columns
TableOf(rows, nc, nt, nn, no, pattern, distinct) ==
    LET names == SubSeq(CategoryCandidates, 1, nc)
                 \o [i \in 1..nt |-> IF i <= Len(DateColumns) THEN DateColumns[i]
                                     ELSE "date_" \o ToString(i)]
                 \o [i \in 1..nn |-> "num_" \o ToString(i)]
                 \o [i \in 1..no |-> "col_" \o ToString(i)]
        KindOf(i) == IF i <= nc THEN "obj"
                     ELSE IF i <= nc + nt THEN "time"
                     ELSE IF i <= nc + nt + nn THEN "num" ELSE "obj"
    IN Table(rows, [i \in 1..Len(names) |->
                      Column(names[i], KindOf(i), MissingOf(pattern, rows, i), distinct)])

\* the tables EDAAgent.run is given: narrow ones, and wide ones of more than
\* 200 columns
EdaTables ==
    { TableOf(rows, nc, nt, nn, no, pattern, distinct) :
        rows \in {0, 3, 15}, nc \in {0, 2, 5}, nt \in {0, 1, MaxTimeCols}, nn \in {0, 13},
        no \in {0, 1}, pattern \in {"none", "some", "all"}, distinct \in {1, 12} }
    \cup
    { TableOf(15, 5, MaxTimeCols, 13, 190, pattern, 12) : pattern \in {"none", "some", "all"} }

\* the harness before run is called on a table
EdaLocals(df) == [pc |-> "ready", df |-> df, out |-> None]

\* run: df = context["orders_merged"]; ...; new_ctx["eda"] = eda; return {...}
EdaRun ==
    /\ eda.pc = "ready"
    /\ eda' = [eda EXCEPT !.pc = "returned", !.out = Some(EdaOf(eda.df))]
    /\ UNCHANGED <<rag, api, twin, san, srv, ldr, ui, vVars, rVars, qVars, cVars, oVars>>

\* the harness is given another table
EdaNext ==
    /\ eda.pc = "returned"
    /\ \E df \in EdaTables : eda' = EdaLocals(df)
    /\ UNCHANGED <<rag, api, twin, san, srv, ldr, ui, vVars, rVars, qVars, cVars, oVars>>

InitEda ==
    /\ eda \in { EdaLocals(df) : df \in EdaTables }
    /\ srv = None /\ ldr = None /\ ui = None
    /\ rag = RagLocals("idle") /\ api = ApiLocals("idle") /\ twin = None
    /\ san = SanLocals("off")
    /\ VIdle /\ RIdle /\ QIdle /\ CIdle /\ OIdle

NextEda == EdaRun \/ EdaNext

SpecEda == InitEda /\ [][NextEda]_vars

\* ---------------------------------------------------------------------
\* C40
\* ---------------------------------------------------------------------
\* the names of the columns of the table under test
NamesOf(df) == { df.cols[i].name : i \in 1..Len(df.cols) }

\* C40: for every input table, whatever its number of rows and columns, the
\* statistics artifact of EDAAgent.run has bounded parts: at most 10
\* missingness entries, all with a missing rate greater than zero; a numeric
\* description of at most 12 columns; value counts for at most 4 categorical
\* columns, all from the fixed whitelist and present in the table, with at
\* most 10 values each; at most 200 column names; and a number of time-range
\* entries bounded by a fixed constant (the five date columns of the merged
\* table).
C40_BoundedArtifact ==
    eda.pc = "returned" =>
        LET out == eda.out[1]
        IN /\ Len(out.missing_top) <= 10
           /\ \A i \in 1..Len(out.missing_top) : out.missing_top[i].missing_rate[1] > 0
           /\ Len(out.numeric_describe.rows) <= 12
           /\ Len(out.category_top) <= 4
           /\ \A i \in 1..Len(out.category_top) :
                 /\ \E j \in 1..Len(CategoryCandidates) :
                       CategoryCandidates[j] = out.category_top[i].column
                 /\ out.category_top[i].column \in NamesOf(eda.df)
                 /\ Len(out.category_top[i].top) <= 10
           /\ Len(out.columns) <= 200
           /\ Len(out.time_ranges) <= Len(DateColumns)

====
